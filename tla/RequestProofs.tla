---------------------------- MODULE RequestProofs ---------------------------
(***************************************************************************)
(* Proofs about the way of a request through the balancer.  Dispatch, for  *)
(* any number of requests, agents, connections and slots and for any       *)
(* buffer limit: no slot is lost and no wake-up is missed.  Forwarding,    *)
(* for any number of uses of a request id and any number of responses:     *)
(* every use is answered with its own responses, the slot is kept while    *)
(* the agent works, and the whole implements the safety part of            *)
(* ResponseStream.  Lifecycle, for any services and connections: the end   *)
(* of the program that serves them leaves nothing behind.                  *)
(***************************************************************************)
EXTENDS MCServing, FiniteSetTheorems, SequenceTheorems, TLAPS

-----------------------------------------------------------------------------
(***************************************************************************)
(* Dispatch: the types.                                                    *)
(***************************************************************************)

\* The pool starts empty and every request new: the types hold initially.
LEMMA InitTypeOK == Init => TypeOK
  BY DispatchAssumption DEF Init, TypeOK, Slots, Candidate, NoCandidate,
     SocketStates, RequestStates

\* The steps of one request keep the types.
LEMMA RequestTypeOK ==
  ASSUME TypeOK, NEW r \in Request,
         RequestStep(r) \/ Decline(r) \/ ReleaseSlot(r) \/ GiveUp(r)
  PROVE  TypeOK'
<1> USE DispatchAssumption DEF TypeOK, Candidate, NoCandidate, RequestStates, requestVars,
        bufferVars, agentVars
<1>1. CASE Arrive(r) BY <1>1 DEF Arrive, BeginScan
<1>2. ASSUME NEW id \in AgentId, VisitEntry(r, id) PROVE TypeOK'
  BY <1>2 DEF VisitEntry
<1>3. CASE CheckCapacity(r) BY <1>3 DEF CheckCapacity, LeastBusy
<1>4. CASE FinishScan(r) BY <1>4 DEF FinishScan
<1>5. CASE ClaimSlot(r)
  <2>1. /\ best[r].controller \in Controller \cup {NoController}
        /\ best[r].snapshot + 1 \in Int
    OBVIOUS
  <2>2. slots_processing' \in [Controller -> Int] BY <1>5, <2>1 DEF ClaimSlot
  <2>3. holder' \in [Request -> Controller \cup {NoController}] BY <1>5, <2>1 DEF ClaimSlot
  <2>4. QED BY <1>5, <2>2, <2>3 DEF ClaimSlot
<1>6. CASE ClaimContended(r) BY <1>6 DEF ClaimContended, BeginScan
<1>7. CASE SignalClaim(r) BY <1>7 DEF SignalClaim, SignalUpdate
<1>8. CASE CheckBuffer(r) BY <1>8 DEF CheckBuffer
<1>9. CASE EnterBuffer(r) BY <1>9 DEF EnterBuffer, BeginScan
<1>10. CASE Wake(r) BY <1>10 DEF Wake, BeginScan
<1>11. CASE Dispatched(r) BY <1>11 DEF Dispatched, LeaveBuffer
<1>12. CASE SignalRelease(r) BY <1>12 DEF SignalRelease, SignalUpdate
<1>13. CASE Decline(r) BY <1>13 DEF Decline
<1>14. CASE ReleaseSlot(r)
  <2>1. slots_processing' \in [Controller -> Int]
    <3>1. CASE holder[r] \in Controller BY <1>14, <3>1 DEF ReleaseSlot
    <3>2. CASE holder[r] \notin Controller BY <1>14, <3>2 DEF ReleaseSlot
    <3>3. QED BY <3>1, <3>2
  <2>2. QED BY <1>14, <2>1 DEF ReleaseSlot
<1>15. CASE GiveUp(r) BY <1>15 DEF GiveUp, LeaveBuffer
<1>16. QED BY <1>1, <1>2, <1>3, <1>4, <1>5, <1>6, <1>7, <1>8, <1>9, <1>10, <1>11,
              <1>12, <1>13, <1>14, <1>15 DEF RequestStep

\* The steps of one agent socket keep the types.
LEMMA SocketTypeOK ==
  ASSUME TypeOK, NEW c \in Controller, SocketStep(c)
  PROVE  TypeOK'
<1> USE DispatchAssumption DEF TypeOK, Candidate, SocketStates, Slots, requestVars, bufferVars
<1>1. ASSUME NEW processing \in Slots, NEW total \in Slots,
             RegisterAgent(c, processing, total)
      PROVE  TypeOK'
  BY <1>1 DEF RegisterAgent
<1>2. ASSUME NEW total \in Slots, UpdateAgentStatus(c, total) PROVE TypeOK'
  BY <1>2 DEF UpdateAgentStatus
<1>3. CASE RemoveAgent(c) BY <1>3 DEF RemoveAgent
<1>4. CASE SignalSocket(c) BY <1>4 DEF SignalSocket, SignalUpdate
<1>5. QED BY <1>1, <1>2, <1>3, <1>4 DEF SocketStep

\* Every step keeps the types.
LEMMA NextTypeOK == TypeOK /\ [Next]_vars => TypeOK'
<1> SUFFICES ASSUME TypeOK, [Next]_vars PROVE TypeOK' OBVIOUS
<1>1. CASE UNCHANGED vars BY <1>1 DEF vars, TypeOK
<1>2. CASE Next BY <1>2, RequestTypeOK, SocketTypeOK DEF Next
<1>3. QED BY <1>1, <1>2

\* Every variable of the dispatcher keeps its type, for all constants.
THEOREM TypeCorrect == Spec => []TypeOK
<1>1. QED BY InitTypeOK, NextTypeOK, PTL DEF Spec

-----------------------------------------------------------------------------
(***************************************************************************)
(* The inductive invariant, one conjunct at a time.                        *)
(***************************************************************************)
\* Requests never touch the pool, and a socket leaves it only by removing the
\* entry of its id.
LEMMA NextPoolShape ==
  ASSUME TypeOK, PoolShape, Next PROVE PoolShape'
<1> USE DispatchAssumption DEF TypeOK, PoolShape
<1>1. ASSUME NEW r \in Request, RequestStep(r) \/ Decline(r) \/ ReleaseSlot(r) \/ GiveUp(r)
      PROVE  UNCHANGED <<agents, socket>>
  BY <1>1 DEF RequestStep, Arrive, VisitEntry, CheckCapacity, FinishScan, ClaimSlot,
     ClaimContended, SignalClaim, CheckBuffer, EnterBuffer, Wake, Dispatched, SignalRelease,
     Decline, ReleaseSlot, GiveUp, agentVars
<1>2. ASSUME NEW c \in Controller, NEW processing \in Slots, NEW total \in Slots,
             RegisterAgent(c, processing, total)
      PROVE  PoolShape'
  BY <1>2 DEF RegisterAgent
<1>3. ASSUME NEW c \in Controller, NEW total \in Slots, UpdateAgentStatus(c, total)
      PROVE  PoolShape'
  BY <1>3 DEF UpdateAgentStatus
<1>4. ASSUME NEW c \in Controller, RemoveAgent(c) PROVE PoolShape'
  BY <1>4 DEF RemoveAgent
<1>5. ASSUME NEW c \in Controller, SignalSocket(c) PROVE PoolShape'
  BY <1>5 DEF SignalSocket
<1>6. QED BY <1>1, <1>2, <1>3, <1>4, <1>5 DEF Next, SocketStep

\* A scan only picks up controllers the pool holds, and a claim only copies its
\* candidate: nothing ever refers to a controller before its registration.
LEMMA NextReferencesCreated ==
  ASSUME TypeOK, PoolShape, ReferencesCreated, Next PROVE ReferencesCreated'
<1> USE DispatchAssumption DEF TypeOK, ReferencesCreated, Created
<1>1. ASSUME NEW c \in Controller, SocketStep(c) PROVE ReferencesCreated'
  BY <1>1 DEF SocketStep, RegisterAgent, UpdateAgentStatus, RemoveAgent, SignalSocket,
     requestVars
<1>2. ASSUME NEW r \in Request, NEW id \in AgentId, VisitEntry(r, id)
      PROVE  ReferencesCreated'
  <2>1. CASE agents[id] = NoController BY <1>2, <2>1 DEF VisitEntry, agentVars
  <2>2. CASE agents[id] # NoController
    <3>1. /\ visiting' = [visiting EXCEPT ![r] =
                [controller |-> agents[id], snapshot |-> slots_processing[agents[id]]]]
          /\ UNCHANGED <<best, holder, socket>>
      BY <1>2, <2>2 DEF VisitEntry, agentVars
    <3>2. Created(agents[id]) BY <2>2 DEF PoolShape
    <3>3. QED BY <3>1, <3>2
  <2>3. QED BY <2>1, <2>2
<1>3. ASSUME NEW r \in Request, CheckCapacity(r) PROVE ReferencesCreated'
  BY <1>3 DEF CheckCapacity, LeastBusy, agentVars, Candidate, NoCandidate
<1>4. ASSUME NEW r \in Request, ClaimSlot(r) PROVE ReferencesCreated'
  BY <1>4 DEF ClaimSlot, agentVars
<1>5. ASSUME NEW r \in Request,
             Arrive(r) \/ ClaimContended(r) \/ EnterBuffer(r) \/ Wake(r)
      PROVE  ReferencesCreated'
  BY <1>5 DEF Arrive, ClaimContended, EnterBuffer, Wake, BeginScan, agentVars, NoCandidate
<1>6. ASSUME NEW r \in Request,
             \/ FinishScan(r) \/ SignalClaim(r) \/ CheckBuffer(r) \/ Dispatched(r)
             \/ SignalRelease(r) \/ Decline(r) \/ ReleaseSlot(r) \/ GiveUp(r)
      PROVE  ReferencesCreated'
  BY <1>6 DEF FinishScan, SignalClaim, CheckBuffer, Dispatched, SignalRelease, Decline,
     ReleaseSlot, GiveUp, agentVars
<1>7. QED BY <1>1, <1>2, <1>3, <1>4, <1>5, <1>6 DEF Next, RequestStep

\* The places of wait_for_available_agent keep their meaning: who holds a guard,
\* who has a candidate, who is in the buffer.
LEMMA NextRequestShape ==
  ASSUME TypeOK, PoolShape, RequestShape, Next PROVE RequestShape'
<1> USE DispatchAssumption DEF TypeOK, RequestShape
<1>1. ASSUME NEW c \in Controller, SocketStep(c) PROVE RequestShape'
  BY <1>1 DEF SocketStep, RegisterAgent, UpdateAgentStatus, RemoveAgent, SignalSocket,
     requestVars, bufferVars
<1>2. ASSUME NEW r \in Request, Arrive(r) PROVE RequestShape'
  BY <1>2 DEF Arrive, BeginScan, bufferVars
<1>3. ASSUME NEW r \in Request, NEW id \in AgentId, VisitEntry(r, id) PROVE RequestShape'
  BY <1>3 DEF VisitEntry, bufferVars, Candidate
<1>4. ASSUME NEW r \in Request, CheckCapacity(r) PROVE RequestShape'
  BY <1>4 DEF CheckCapacity, bufferVars
<1>5. ASSUME NEW r \in Request, FinishScan(r) PROVE RequestShape'
  BY <1>5 DEF FinishScan, bufferVars
<1>6. ASSUME NEW r \in Request, ClaimSlot(r) PROVE RequestShape'
  BY <1>6 DEF ClaimSlot, bufferVars
<1>7. ASSUME NEW r \in Request, ClaimContended(r) PROVE RequestShape'
  BY <1>7 DEF ClaimContended, BeginScan, bufferVars
<1>8. ASSUME NEW r \in Request, SignalClaim(r) PROVE RequestShape'
  BY <1>8 DEF SignalClaim
<1>9. ASSUME NEW r \in Request, CheckBuffer(r) PROVE RequestShape'
  BY <1>9 DEF CheckBuffer, bufferVars
<1>10. ASSUME NEW r \in Request, EnterBuffer(r) PROVE RequestShape'
  BY <1>10 DEF EnterBuffer, BeginScan
<1>11. ASSUME NEW r \in Request, Wake(r) PROVE RequestShape'
  BY <1>11 DEF Wake, BeginScan
<1>12. ASSUME NEW r \in Request, Dispatched(r) \/ GiveUp(r) PROVE RequestShape'
  BY <1>12 DEF Dispatched, GiveUp, LeaveBuffer
<1>13. ASSUME NEW r \in Request, SignalRelease(r) PROVE RequestShape'
  BY <1>13 DEF SignalRelease
<1>14. ASSUME NEW r \in Request, Decline(r) \/ ReleaseSlot(r) PROVE RequestShape'
  BY <1>14 DEF Decline, ReleaseSlot, bufferVars
<1>15. QED BY <1>1, <1>2, <1>3, <1>4, <1>5, <1>6, <1>7, <1>8, <1>9, <1>10, <1>11, <1>12,
              <1>13, <1>14 DEF Next, RequestStep

\* A candidate is chosen under capacity, and only an agent that lowers its
\* slots_total can take that back.
LEMMA NextCandidateHadCapacity ==
  ASSUME TypeOK, ReferencesCreated, RequestShape, CandidateHadCapacity, Next
  PROVE  CandidateHadCapacity'
<1> USE DispatchAssumption DEF TypeOK, CandidateHadCapacity
<1>1. ASSUME NEW c \in Controller, NEW processing \in Slots, NEW total \in Slots,
             RegisterAgent(c, processing, total)
      PROVE  CandidateHadCapacity'
  BY <1>1 DEF RegisterAgent, requestVars, ReferencesCreated, Created
<1>2. ASSUME NEW c \in Controller, NEW total \in Slots, UpdateAgentStatus(c, total)
      PROVE  CandidateHadCapacity'
  BY <1>2 DEF UpdateAgentStatus, requestVars, Slots, Candidate
<1>3. ASSUME NEW c \in Controller, RemoveAgent(c) \/ SignalSocket(c)
      PROVE  CandidateHadCapacity'
  BY <1>3 DEF RemoveAgent, SignalSocket, requestVars
<1>4. ASSUME NEW r \in Request, CheckCapacity(r) PROVE CandidateHadCapacity'
  <2>1. /\ visiting[r].controller \in Controller
        /\ visiting[r].snapshot \in Int
        /\ slots_total[visiting[r].controller] \in Int
    BY <1>4 DEF CheckCapacity, RequestShape, Candidate, Slots
  <2>2. /\ best' = [best EXCEPT ![r] = LeastBusy(best[r], visiting[r])]
        /\ UNCHANGED <<slots_total, shrunk>>
    BY <1>4 DEF CheckCapacity, agentVars
  <2>3. CASE LeastBusy(best[r], visiting[r]) = best[r] BY <2>2, <2>3
  <2>4. CASE /\ LeastBusy(best[r], visiting[r]) = visiting[r]
             /\ visiting[r].snapshot < slots_total[visiting[r].controller]
    BY <2>2, <2>4
  <2>5. QED BY <2>1, <2>3, <2>4 DEF LeastBusy
<1>5. ASSUME NEW r \in Request,
             Arrive(r) \/ ClaimContended(r) \/ EnterBuffer(r) \/ Wake(r)
      PROVE  CandidateHadCapacity'
  BY <1>5 DEF Arrive, ClaimContended, EnterBuffer, Wake, BeginScan, agentVars, NoCandidate
<1>6. ASSUME NEW r \in Request,
             \/ \E id \in AgentId : VisitEntry(r, id)
             \/ FinishScan(r) \/ ClaimSlot(r) \/ SignalClaim(r) \/ CheckBuffer(r)
             \/ Dispatched(r) \/ SignalRelease(r) \/ Decline(r) \/ ReleaseSlot(r) \/ GiveUp(r)
      PROVE  CandidateHadCapacity'
  BY <1>6 DEF VisitEntry, FinishScan, ClaimSlot, SignalClaim, CheckBuffer, Dispatched,
     SignalRelease, Decline, ReleaseSlot, GiveUp, agentVars
<1>7. QED BY <1>1, <1>2, <1>3, <1>4, <1>5, <1>6 DEF Next, RequestStep, SocketStep

\* The claims on a controller are finitely many, so they can be counted.
LEMMA ClaimsFinite ==
  ASSUME NEW c PROVE IsFiniteSet(Claims(c)) /\ Cardinality(Claims(c)) \in Nat
<1>1. Claims(c) \subseteq Request BY DEF Claims
<1>2. IsFiniteSet(Claims(c)) BY <1>1, DispatchAssumption, FS_Subset
<1>3. QED BY <1>2, FS_CardinalityType

\* A step either leaves the claims and their counts alone, or is one of the
\* four that move them.
LEMMA ClaimsMovedBy ==
  ASSUME TypeOK, RequestShape, Next
  PROVE  \/ /\ \A c \in Controller : Claims(c)' = Claims(c)
            /\ UNCHANGED <<slots_processing, reported>>
         \/ \E r \in Request : ClaimSlot(r) \/ ReleaseSlot(r)
         \/ \E c \in Controller, processing, total \in Slots :
                RegisterAgent(c, processing, total)
<1> USE DispatchAssumption DEF TypeOK
<1>1. ASSUME NEW c \in Controller,
             \/ \E total \in Slots : UpdateAgentStatus(c, total)
             \/ RemoveAgent(c) \/ SignalSocket(c)
      PROVE  UNCHANGED <<holder, pc, slots_processing, reported>>
  BY <1>1 DEF UpdateAgentStatus, RemoveAgent, SignalSocket, requestVars
<1>2. ASSUME NEW r \in Request, SignalRelease(r)
      PROVE  /\ \A c \in Controller : Claims(c)' = Claims(c)
             /\ UNCHANGED <<slots_processing, reported>>
  <2>1. ASSUME NEW c \in Controller, NEW q \in Request
        PROVE  (holder[q] = c /\ pc[q] # "released")' <=> (holder[q] = c /\ pc[q] # "released")
    BY <1>2 DEF SignalRelease
  <2>2. QED BY <1>2, <2>1 DEF SignalRelease, agentVars, Claims
<1>3. ASSUME NEW r \in Request,
             \/ Arrive(r) \/ CheckCapacity(r) \/ FinishScan(r) \/ ClaimContended(r)
             \/ SignalClaim(r) \/ CheckBuffer(r) \/ EnterBuffer(r) \/ Wake(r)
             \/ Dispatched(r) \/ Decline(r) \/ GiveUp(r)
             \/ \E id \in AgentId : VisitEntry(r, id)
      PROVE  /\ \A c \in Controller : Claims(c)' = Claims(c)
             /\ UNCHANGED <<slots_processing, reported>>
  <2>1. UNCHANGED <<slots_processing, reported, holder>>
    BY <1>3 DEF Arrive, CheckCapacity, FinishScan, ClaimContended, SignalClaim, CheckBuffer,
       EnterBuffer, Wake, Dispatched, Decline, GiveUp, VisitEntry, agentVars
  <2>2. \A q \in Request : pc'[q] = "released" <=> pc[q] = "released"
    BY <1>3 DEF Arrive, CheckCapacity, FinishScan, ClaimContended, SignalClaim, CheckBuffer,
       EnterBuffer, Wake, Dispatched, Decline, GiveUp, VisitEntry, BeginScan
  <2>3. QED BY <2>1, <2>2 DEF Claims
<1>4. QED BY <1>1, <1>2, <1>3 DEF Next, RequestStep, SocketStep, Claims

\* A successful compare-and-swap adds exactly the new guard to its controller.
LEMMA ClaimAddsOne ==
  ASSUME TypeOK, RequestShape, NEW r \in Request, ClaimSlot(r),
         NEW c, c = best[r].controller
  PROVE  /\ c \in Controller
         /\ Cardinality(Claims(c)') = Cardinality(Claims(c)) + 1
         /\ \A d \in Controller \ {c} : Claims(d)' = Claims(d)
<1>1. c \in Controller /\ holder[r] = NoController
  BY DispatchAssumption DEF ClaimSlot, RequestShape, TypeOK, Candidate
<1>2. Claims(c)' = Claims(c) \cup {r}
  BY <1>1 DEF ClaimSlot, TypeOK, Claims
<1>3. r \notin Claims(c) BY <1>1, DispatchAssumption DEF Claims
<1>4. \A d \in Controller \ {c} : Claims(d)' = Claims(d)
  BY <1>1, DispatchAssumption DEF ClaimSlot, TypeOK, Claims
<1>5. Cardinality(Claims(c) \cup {r}) = Cardinality(Claims(c)) + 1
  BY <1>3, ClaimsFinite, FS_AddElement
<1>6. QED BY <1>1, <1>2, <1>4, <1>5

\* A guard's drop takes exactly that guard from its controller.
LEMMA ReleaseTakesOne ==
  ASSUME TypeOK, RequestShape, NEW r \in Request, ReleaseSlot(r),
         NEW c, c = holder[r]
  PROVE  /\ c \in Controller
         /\ Cardinality(Claims(c)') = Cardinality(Claims(c)) - 1
         /\ Claims(c)' \subseteq Claims(c)
         /\ \A d \in Controller \ {c} : Claims(d)' = Claims(d)
<1>1. c \in Controller /\ r \in Claims(c)
  BY DispatchAssumption DEF ReleaseSlot, RequestShape, TypeOK, Claims
<1>2. Claims(c)' = Claims(c) \ {r}
  BY <1>1 DEF ReleaseSlot, TypeOK, Claims
<1>3. \A d \in Controller \ {c} : Claims(d)' = Claims(d)
  BY <1>1 DEF ReleaseSlot, TypeOK, Claims
<1>4. Cardinality(Claims(c) \ {r}) = Cardinality(Claims(c)) - 1
  BY <1>1, ClaimsFinite, FS_RemoveElement
<1>5. QED BY <1>1, <1>2, <1>3, <1>4

\* A controller that was just created carries no claim.
LEMMA FreshUnclaimed ==
  ASSUME TypeOK, ReferencesCreated, NEW c \in Controller, NEW processing \in Slots,
         NEW total \in Slots, RegisterAgent(c, processing, total)
  PROVE  /\ Claims(c)' = {}
         /\ \A d \in Controller : Claims(d)' = Claims(d)
<1>1. UNCHANGED <<holder, pc>> BY DEF RegisterAgent, requestVars
<1>2. \A q \in Request : holder[q] # c
  BY DispatchAssumption DEF RegisterAgent, ReferencesCreated, Created
<1>3. QED BY <1>1, <1>2 DEF Claims

\* Claims and guard drops move the counter of a controller and the guards on it
\* together, and a re-registration starts another controller.
LEMMA NextSlotConservation ==
  ASSUME TypeOK, ReferencesCreated, RequestShape, SlotConservation, Next
  PROVE  SlotConservation'
<1> USE DEF SlotConservation
<1>1. CASE /\ \A c \in Controller : Claims(c)' = Claims(c)
           /\ UNCHANGED <<slots_processing, reported>>
  BY <1>1
<1>2. ASSUME NEW r \in Request, ClaimSlot(r) PROVE SlotConservation'
  <2>0. PICK c : c = best[r].controller OBVIOUS
  <2>1. /\ slots_processing[c] = best[r].snapshot
        /\ slots_processing' = [slots_processing EXCEPT ![c] = best[r].snapshot + 1]
        /\ UNCHANGED reported
    BY <1>2, <2>0 DEF ClaimSlot, agentVars
  <2>2. slots_processing'[c] = reported'[c] + Cardinality(Claims(c)')
    BY <1>2, <2>0, <2>1, ClaimAddsOne, ClaimsFinite DEF TypeOK, Slots
  <2>3. \A d \in Controller \ {c} :
           slots_processing'[d] = reported'[d] + Cardinality(Claims(d)')
    BY <1>2, <2>0, <2>1, ClaimAddsOne DEF TypeOK
  <2>4. QED BY <2>2, <2>3
<1>3. ASSUME NEW r \in Request, ReleaseSlot(r) PROVE SlotConservation'
  <2>0. PICK c : c = holder[r] OBVIOUS
  <2>1. /\ slots_processing' = [slots_processing EXCEPT ![c] = @ - 1]
        /\ UNCHANGED reported
    BY <1>3, <2>0 DEF ReleaseSlot, agentVars
  <2>2. slots_processing'[c] = reported'[c] + Cardinality(Claims(c)')
    BY <1>3, <2>0, <2>1, ReleaseTakesOne, ClaimsFinite DEF TypeOK, Slots
  <2>3. \A d \in Controller \ {c} :
           slots_processing'[d] = reported'[d] + Cardinality(Claims(d)')
    BY <1>3, <2>0, <2>1, ReleaseTakesOne DEF TypeOK
  <2>4. QED BY <2>2, <2>3
<1>4. ASSUME NEW c \in Controller, NEW processing \in Slots, NEW total \in Slots,
             RegisterAgent(c, processing, total)
      PROVE  SlotConservation'
  <2>1. /\ slots_processing' = [slots_processing EXCEPT ![c] = processing]
        /\ reported' = [reported EXCEPT ![c] = processing]
    BY <1>4 DEF RegisterAgent
  <2>2. Cardinality(Claims(c)') = 0 BY <1>4, FreshUnclaimed, FS_EmptySet
  <2>3. \A d \in Controller \ {c} : Claims(d)' = Claims(d) BY <1>4, FreshUnclaimed
  <2>4. slots_processing'[c] = reported'[c] + Cardinality(Claims(c)')
    BY <2>1, <2>2 DEF TypeOK, Slots
  <2>5. QED BY <2>1, <2>3, <2>4 DEF TypeOK
<1>5. QED BY <1>1, <1>2, <1>3, <1>4, ClaimsMovedBy

\* The compare-and-swap succeeds only on the snapshot that was checked against
\* slots_total, so a claim ends at most at the capacity.
LEMMA NextNoOversubscription ==
  ASSUME TypeOK, ReferencesCreated, RequestShape, CandidateHadCapacity, NoOversubscription, Next
  PROVE  NoOversubscription'
<1> USE DispatchAssumption DEF NoOversubscription
<1>1. ASSUME NEW r \in Request, ClaimSlot(r) PROVE NoOversubscription'
  <2>0. PICK c : c = best[r].controller OBVIOUS
  <2>1. /\ slots_processing' = [slots_processing EXCEPT ![c] = best[r].snapshot + 1]
        /\ UNCHANGED <<slots_total, shrunk>>
    BY <1>1, <2>0 DEF ClaimSlot, agentVars
  <2>2. c \in Controller /\ \A d \in Controller \ {c} : Claims(d)' = Claims(d)
    BY <1>1, <2>0, ClaimAddsOne
  <2>3. /\ slots_processing'[c] \in Int /\ slots_total'[c] \in Int
        /\ c \notin shrunk => slots_processing'[c] <= slots_total'[c]
    BY <2>0, <2>1, <2>2 DEF CandidateHadCapacity, TypeOK, Slots, Candidate
  <2>4. ASSUME NEW d \in Controller, slots_processing'[d] > slots_total'[d]
        PROVE  d \in shrunk' \/ Claims(d)' = {}
    <3>1. CASE d = c BY <2>1, <2>3, <2>4, <3>1
    <3>2. CASE d # c
      <4>1. slots_processing[d] > slots_total[d] BY <2>1, <2>4, <3>2 DEF TypeOK
      <4>2. QED BY <4>1, <3>2, <2>1, <2>2
    <3>3. QED BY <3>1, <3>2
  <2>5. QED BY <2>4
<1>2. ASSUME NEW r \in Request, ReleaseSlot(r) PROVE NoOversubscription'
  <2>0. PICK c : c = holder[r] OBVIOUS
  <2>1. /\ slots_processing' = [slots_processing EXCEPT ![c] = @ - 1]
        /\ UNCHANGED <<slots_total, shrunk>>
    BY <1>2, <2>0 DEF ReleaseSlot, agentVars
  <2>2. /\ c \in Controller
        /\ \A d \in Controller : Claims(d)' \subseteq Claims(d)
    <3>1. /\ c \in Controller
          /\ Claims(c)' \subseteq Claims(c)
          /\ \A d \in Controller \ {c} : Claims(d)' = Claims(d)
      BY <1>2, <2>0, ReleaseTakesOne
    <3>2. QED BY <3>1
  <2>3. \A d \in Controller : slots_processing'[d] <= slots_processing[d]
    BY <2>1, <2>2 DEF TypeOK
  <2>4. ASSUME NEW d \in Controller, slots_processing'[d] > slots_total'[d]
        PROVE  d \in shrunk' \/ Claims(d)' = {}
    <3>1. slots_processing[d] > slots_total[d]
      BY <2>1, <2>2, <2>3, <2>4 DEF TypeOK, Slots
    <3>2. QED BY <3>1, <2>1, <2>2
  <2>5. QED BY <2>4
<1>3. ASSUME NEW c \in Controller, NEW processing \in Slots, NEW total \in Slots,
             RegisterAgent(c, processing, total)
      PROVE  NoOversubscription'
  <2>1. /\ Claims(c)' = {}
        /\ \A d \in Controller : Claims(d)' = Claims(d)
    BY <1>3, FreshUnclaimed
  <2>2. /\ slots_processing' = [slots_processing EXCEPT ![c] = processing]
        /\ slots_total' = [slots_total EXCEPT ![c] = total]
        /\ UNCHANGED shrunk
    BY <1>3 DEF RegisterAgent
  <2>3. ASSUME NEW d \in Controller, slots_processing'[d] > slots_total'[d]
        PROVE  d \in shrunk' \/ Claims(d)' = {}
    <3>1. CASE d = c BY <2>1, <3>1
    <3>2. CASE d # c
      <4>1. slots_processing[d] > slots_total[d] BY <2>2, <2>3, <3>2 DEF TypeOK
      <4>2. QED BY <4>1, <2>1, <2>2
    <3>3. QED BY <3>1, <3>2
  <2>4. QED BY <2>3
<1>4. ASSUME NEW c \in Controller, NEW total \in Slots, UpdateAgentStatus(c, total)
      PROVE  NoOversubscription'
  <2>1. \A d \in Controller : Claims(d)' = Claims(d)
    BY <1>4 DEF UpdateAgentStatus, requestVars, Claims
  <2>2. ASSUME NEW d \in Controller, slots_processing'[d] > slots_total'[d]
        PROVE  d \in shrunk' \/ slots_processing[d] > slots_total[d]
    BY <1>4, <2>2 DEF UpdateAgentStatus, TypeOK, Slots
  <2>3. shrunk \subseteq shrunk' BY <1>4 DEF UpdateAgentStatus
  <2>4. QED BY <2>1, <2>2, <2>3
<1>5. CASE /\ \A c \in Controller : Claims(c)' = Claims(c)
           /\ UNCHANGED <<slots_processing, slots_total, shrunk>>
  BY <1>5
<1>6. CASE \E c \in Controller : RemoveAgent(c) \/ SignalSocket(c)
  BY <1>6, <1>5 DEF RemoveAgent, SignalSocket, requestVars, Claims
<1>7. ASSUME NEW r \in Request, RequestStep(r) \/ Decline(r) \/ GiveUp(r)
      PROVE  UNCHANGED <<slots_total, shrunk>>
  BY <1>7 DEF RequestStep, Arrive, VisitEntry, CheckCapacity, FinishScan, ClaimSlot,
     ClaimContended, SignalClaim, CheckBuffer, EnterBuffer, Wake, Dispatched, SignalRelease,
     Decline, GiveUp, agentVars
<1>8. QED BY <1>1, <1>2, <1>3, <1>4, <1>5, <1>6, <1>7, ClaimsMovedBy DEF Next, SocketStep

\* Only entering and leaving move the buffer, and both count.
LEMMA NextBufferCounted ==
  ASSUME TypeOK, RequestShape, BufferCounted, Next PROVE BufferCounted'
<1> USE DEF BufferCounted
<1>0. IsFiniteSet(buffered) /\ Cardinality(buffered) \in Nat
  BY DispatchAssumption, FS_Subset, FS_CardinalityType DEF TypeOK
<1>1. ASSUME NEW r \in Request, EnterBuffer(r) PROVE BufferCounted'
  <2>1. r \notin buffered BY <1>1 DEF EnterBuffer, RequestShape
  <2>2. Cardinality(buffered \cup {r}) = Cardinality(buffered) + 1
    BY <1>0, <2>1, FS_AddElement
  <2>3. QED BY <1>1, <2>2 DEF EnterBuffer
<1>2. ASSUME NEW r \in Request, Dispatched(r) \/ GiveUp(r) PROVE BufferCounted'
  <2>1. r \in buffered BY <1>2 DEF Dispatched, GiveUp, RequestShape
  <2>2. Cardinality(buffered \ {r}) = Cardinality(buffered) - 1
    BY <1>0, <2>1, FS_RemoveElement
  <2>3. QED BY <1>2, <2>2 DEF Dispatched, GiveUp, LeaveBuffer
<1>3. ASSUME NEW c \in Controller, SocketStep(c) PROVE BufferCounted'
  BY <1>3 DEF SocketStep, RegisterAgent, UpdateAgentStatus, RemoveAgent, SignalSocket, bufferVars
<1>4. ASSUME NEW r \in Request,
             \/ \E id \in AgentId : VisitEntry(r, id)
             \/ Arrive(r) \/ CheckCapacity(r) \/ FinishScan(r) \/ ClaimSlot(r)
             \/ ClaimContended(r) \/ SignalClaim(r) \/ CheckBuffer(r) \/ Wake(r)
             \/ SignalRelease(r) \/ Decline(r) \/ ReleaseSlot(r)
      PROVE  BufferCounted'
  BY <1>4 DEF VisitEntry, Arrive, CheckCapacity, FinishScan, ClaimSlot, ClaimContended,
     SignalClaim, CheckBuffer, Wake, SignalRelease, Decline, ReleaseSlot, bufferVars
<1>5. QED BY <1>1, <1>2, <1>3, <1>4 DEF Next, RequestStep

-----------------------------------------------------------------------------
(***************************************************************************)
(* The watch channel.  MissedNothing(r, id) is ScanMissedNothing for one   *)
(* request and one agent id.                                               *)
(***************************************************************************)
MissedNothing(r, id) ==
    /\ r \in buffered \ notified
    /\ pc[r] \in {"scan", "check", "parked"}
    /\ best[r].controller = NoController
    /\ id \notin unscanned[r]
    /\ HasCapacity(id)
    => \/ SignalDue(id)
       \/ /\ pc[r] = "check"
          /\ visiting[r].controller = agents[id]
          /\ slots_processing[agents[id]] >= visiting[r].snapshot

\* ScanMissedNothing, one request and one agent id at a time.
LEMMA MissedNothingEverywhere ==
  ASSUME buffered \subseteq Request
  PROVE  ScanMissedNothing <=> \A r \in Request, id \in AgentId : MissedNothing(r, id)
BY DEF ScanMissedNothing, MissedNothing

\* A signal reaches every buffered request, so nothing is left to show.
LEMMA SignalMissesNothing ==
  ASSUME notified' = buffered', NEW r \in Request, NEW id \in AgentId
  PROVE  MissedNothing(r, id)'
BY DEF MissedNothing

\* A due signal stays due until it is sent or its connection is removed.
LEMMA RequestKeepsSignalDue ==
  ASSUME TypeOK, NEW id \in AgentId, SignalDue(id),
         NEW q \in Request, pc[q] # "released",
         \A p \in Request \ {q} : pc'[p] = pc[p],
         \A p \in Request \ {q} : holder'[p] = holder[p],
         UNCHANGED socket
  PROVE  SignalDue(id)'
BY DEF SignalDue, TypeOK

\* A step of another request that takes no slot away keeps what r has seen true.
LEMMA OtherRequestMissesNothing ==
  ASSUME TypeOK, PoolShape, NEW r \in Request, NEW id \in AgentId, MissedNothing(r, id),
         NEW q \in Request \ {r}, pc[q] # "released",
         \A p \in Request \ {q} :
            /\ pc'[p] = pc[p] /\ holder'[p] = holder[p] /\ best'[p] = best[p]
            /\ visiting'[p] = visiting[p] /\ unscanned'[p] = unscanned[p],
         UNCHANGED <<agents, slots_total, socket>>,
         \A c \in Controller : slots_processing'[c] \in Int /\ slots_processing'[c] >= slots_processing[c],
         r \in buffered' \ notified' => r \in buffered \ notified
  PROVE  MissedNothing(r, id)'
<1>1. SUFFICES ASSUME r \in buffered \ notified,
                      pc[r] \in {"scan", "check", "parked"},
                      best[r].controller = NoController,
                      id \notin unscanned[r],
                      HasCapacity(id)'
               PROVE  \/ SignalDue(id)'
                      \/ /\ pc[r] = "check"
                         /\ visiting[r].controller = agents[id]
                         /\ slots_processing'[agents[id]] >= visiting[r].snapshot
  BY DEF MissedNothing
<1>2. agents[id] \in Controller /\ agents' = agents /\ slots_total' = slots_total
  BY <1>1, DispatchAssumption DEF HasCapacity, PoolShape
<1>3. HasCapacity(id)
  BY <1>1, <1>2 DEF HasCapacity, TypeOK, Slots
<1>4. CASE SignalDue(id) BY <1>4, RequestKeepsSignalDue
<1>5. CASE /\ pc[r] = "check"
           /\ visiting[r].controller = agents[id]
           /\ slots_processing[agents[id]] >= visiting[r].snapshot
  BY <1>2, <1>5 DEF TypeOK, Candidate
<1>6. QED BY <1>1, <1>3, <1>4, <1>5 DEF MissedNothing

\* A visit: an absent entry has no capacity; a present one is under inspection
\* with the count just read.
LEMMA VisitMissesNothing ==
  ASSUME TypeOK, PoolShape, NEW r \in Request, NEW id \in AgentId, MissedNothing(r, id),
         NEW seen \in AgentId, VisitEntry(r, seen)
  PROVE  MissedNothing(r, id)'
<1>1. /\ pc[r] = "scan"
      /\ unscanned'[r] = unscanned[r] \ {seen}
      /\ UNCHANGED <<agents, slots_total, socket, slots_processing, best, holder, buffered, notified>>
  BY DEF VisitEntry, agentVars, bufferVars, TypeOK
<1>2. HasCapacity(id)' <=> HasCapacity(id) BY <1>1 DEF HasCapacity
<1>3. SignalDue(id) => SignalDue(id)'
  <2>1. \A p \in Request \ {r} : pc'[p] = pc[p] BY DEF VisitEntry, TypeOK
  <2>2. QED BY <1>1, <2>1, RequestKeepsSignalDue
<1>4. CASE id # seen BY <1>1, <1>2, <1>3, <1>4 DEF MissedNothing
<1>5. CASE id = seen /\ agents[id] = NoController
  BY <1>2, <1>5 DEF MissedNothing, HasCapacity
<1>6. CASE id = seen /\ agents[id] # NoController
  <2>1. /\ pc'[r] = "check"
        /\ visiting'[r].controller = agents[id]
        /\ visiting'[r].snapshot = slots_processing[agents[id]]
    BY <1>6 DEF VisitEntry, TypeOK
  <2>2. slots_processing[agents[id]] \in Int BY <1>6 DEF PoolShape, TypeOK
  <2>3. QED BY <1>1, <2>1, <2>2 DEF MissedNothing
<1>7. QED BY <1>4, <1>5, <1>6

\* A capacity check that finds the agent full: it still is, or a slot of it was
\* freed after the snapshot and the signal is due.
LEMMA CheckMissesNothing ==
  ASSUME TypeOK, PoolShape, RequestShape, NEW r \in Request, NEW id \in AgentId,
         MissedNothing(r, id), CheckCapacity(r)
  PROVE  MissedNothing(r, id)'
<1>1. /\ pc[r] = "check"
      /\ best'[r] = LeastBusy(best[r], visiting[r])
      /\ UNCHANGED <<agents, slots_total, socket, slots_processing, unscanned, holder, buffered, notified>>
  BY DEF CheckCapacity, agentVars, bufferVars, TypeOK
<1>2. HasCapacity(id)' <=> HasCapacity(id) BY <1>1 DEF HasCapacity
<1>3. SignalDue(id) => SignalDue(id)'
  <2>1. \A p \in Request \ {r} : pc'[p] = pc[p] BY DEF CheckCapacity, TypeOK
  <2>2. QED BY <1>1, <2>1, RequestKeepsSignalDue
<1>4. visiting[r].controller \in Controller /\ visiting[r].snapshot \in Int
  BY <1>1 DEF RequestShape, TypeOK, Candidate
<1>5. SUFFICES ASSUME r \in buffered \ notified,
                      best'[r].controller = NoController,
                      id \notin unscanned[r],
                      HasCapacity(id)
               PROVE  SignalDue(id)
  BY <1>1, <1>2, <1>3 DEF MissedNothing
<1>6. best[r].controller = NoController /\ visiting[r].snapshot >= slots_total[visiting[r].controller]
  BY <1>1, <1>4, <1>5, DispatchAssumption DEF LeastBusy
<1>7. CASE /\ visiting[r].controller = agents[id]
           /\ slots_processing[agents[id]] >= visiting[r].snapshot
  BY <1>4, <1>5, <1>6, <1>7 DEF HasCapacity, TypeOK, Slots
<1>8. QED BY <1>1, <1>5, <1>6, <1>7 DEF MissedNothing

\* A guard's drop is followed by its signal, which is due from here on.
LEMMA ReleaseMissesNothing ==
  ASSUME TypeOK, PoolShape, RequestShape, NEW r \in Request, NEW id \in AgentId,
         MissedNothing(r, id), NEW q \in Request, ReleaseSlot(q)
  PROVE  MissedNothing(r, id)'
<1>1. /\ pc[q] = "dispatched"
      /\ pc' = [pc EXCEPT ![q] = "released"]
      /\ slots_processing' = [slots_processing EXCEPT ![holder[q]] = @ - 1]
      /\ UNCHANGED <<agents, slots_total, socket, unscanned, visiting, best, holder, buffered, notified>>
  BY DEF ReleaseSlot, agentVars, bufferVars
<1>2. holder[q] \in Controller BY <1>1, DispatchAssumption DEF RequestShape, TypeOK
<1>3. CASE r = q BY <1>1, <1>3 DEF MissedNothing, TypeOK
<1>4. CASE r # q /\ IdOf[holder[q]] = id
  <2>1. SignalDue(id)' BY <1>1, <1>2, <1>4 DEF SignalDue, TypeOK
  <2>2. QED BY <2>1 DEF MissedNothing
<1>5. CASE r # q /\ IdOf[holder[q]] # id
  <2>1. agents[id] # holder[q] BY <1>2, <1>5, DispatchAssumption DEF PoolShape
  <2>2. agents[id] \in Controller => slots_processing'[agents[id]] = slots_processing[agents[id]]
    BY <1>1, <2>1 DEF TypeOK
  <2>3. HasCapacity(id)' => HasCapacity(id)
    BY <1>1, <2>2 DEF HasCapacity, PoolShape
  <2>4. SignalDue(id) => SignalDue(id)'
    BY <1>1, RequestKeepsSignalDue DEF TypeOK
  <2>5. pc'[r] = pc[r] BY <1>1, <1>5 DEF TypeOK
  <2>6. agents[id] \in Controller \/ ~HasCapacity(id) BY DEF HasCapacity, PoolShape
  <2>7. QED BY <1>1, <2>2, <2>3, <2>4, <2>5, <2>6 DEF MissedNothing
<1>6. QED BY <1>3, <1>4, <1>5

\* What a socket does to an id other than its own does not concern it.
LEMMA SocketMissesNothing ==
  ASSUME TypeOK, PoolShape, NEW r \in Request, NEW id \in AgentId, MissedNothing(r, id),
         NEW c \in Controller,
         \/ \E processing, total \in Slots : RegisterAgent(c, processing, total)
         \/ \E total \in Slots : UpdateAgentStatus(c, total)
         \/ RemoveAgent(c)
  PROVE  MissedNothing(r, id)'
<1>1. UNCHANGED <<pc, unscanned, visiting, best, holder, buffered, notified>>
  BY DEF RegisterAgent, UpdateAgentStatus, RemoveAgent, requestVars, bufferVars
<1>2. CASE IdOf[c] = id /\ ~RemoveAgent(c)
  <2>1. SignalDue(id)'
    BY <1>2 DEF RegisterAgent, UpdateAgentStatus, SignalDue, TypeOK
  <2>2. QED BY <2>1 DEF MissedNothing
<1>3. CASE IdOf[c] = id /\ RemoveAgent(c)
  <2>1. agents'[id] = NoController BY <1>3 DEF RemoveAgent, TypeOK
  <2>2. QED BY <2>1 DEF MissedNothing, HasCapacity
<1>4. CASE IdOf[c] # id
  <2>1. agents'[id] = agents[id]
    BY <1>4 DEF RegisterAgent, UpdateAgentStatus, RemoveAgent, TypeOK
  <2>2. agents[id] \in Controller =>
           /\ slots_processing'[agents[id]] = slots_processing[agents[id]]
           /\ slots_total'[agents[id]] = slots_total[agents[id]]
    <3>1. SUFFICES ASSUME agents[id] \in Controller
                   PROVE  /\ slots_processing'[agents[id]] = slots_processing[agents[id]]
                          /\ slots_total'[agents[id]] = slots_total[agents[id]]
      OBVIOUS
    <3>2. agents[id] # c BY <1>4, <3>1, DispatchAssumption DEF PoolShape
    <3>3. agents[id] # agents[IdOf[c]] \/ agents[IdOf[c]] = NoController
      BY <1>4, <3>1, DispatchAssumption DEF PoolShape
    <3>4. QED BY <3>1, <3>2, <3>3 DEF RegisterAgent, UpdateAgentStatus, RemoveAgent, TypeOK
  <2>3. HasCapacity(id)' => HasCapacity(id)
    BY <2>1, <2>2 DEF HasCapacity, PoolShape
  <2>4. \A d \in Controller \ {c} : socket'[d] = socket[d]
    BY DEF RegisterAgent, UpdateAgentStatus, RemoveAgent, TypeOK
  <2>5. SignalDue(id) => SignalDue(id)'
    BY <1>1, <1>4, <2>4 DEF SignalDue
  <2>6. agents[id] \in Controller \/ ~HasCapacity(id) BY DEF HasCapacity, PoolShape
  <2>7. QED BY <1>1, <2>1, <2>2, <2>3, <2>5, <2>6 DEF MissedNothing
<1>5. QED BY <1>2, <1>3, <1>4

\* A scan by a subscribed request misses no capacity: what is freed behind it
\* signals, and the signal reaches it.
LEMMA NextScanMissedNothing ==
  ASSUME TypeOK, TypeOK', PoolShape, RequestShape, ScanMissedNothing, Next
  PROVE  ScanMissedNothing'
<1>1. SUFFICES ASSUME NEW r \in Request, NEW id \in AgentId, MissedNothing(r, id)
               PROVE  MissedNothing(r, id)'
  <2>1. buffered \subseteq Request /\ buffered' \subseteq Request BY DEF TypeOK
  <2>2. \A r \in Request, id \in AgentId : MissedNothing(r, id)
    BY <2>1, MissedNothingEverywhere
  <2>3. (\A r \in Request, id \in AgentId : MissedNothing(r, id)') => ScanMissedNothing'
    BY <2>1 DEF ScanMissedNothing, MissedNothing
  <2>4. QED BY <2>2, <2>3
<1>2. CASE \E c \in Controller : SocketStep(c)
  <2>1. ASSUME NEW c \in Controller, SignalSocket(c) PROVE MissedNothing(r, id)'
    BY <2>1, SignalMissesNothing DEF SignalSocket, SignalUpdate
  <2>2. QED BY <1>1, <1>2, <2>1, SocketMissesNothing DEF SocketStep
<1>3. ASSUME NEW q \in Request, SignalClaim(q) \/ SignalRelease(q)
      PROVE  MissedNothing(r, id)'
  BY <1>3, SignalMissesNothing DEF SignalClaim, SignalRelease, SignalUpdate
<1>4. ASSUME NEW q \in Request, ReleaseSlot(q) PROVE MissedNothing(r, id)'
  BY <1>1, <1>4, ReleaseMissesNothing
<1>5. ASSUME NEW seen \in AgentId, VisitEntry(r, seen) PROVE MissedNothing(r, id)'
  BY <1>1, <1>5, VisitMissesNothing
<1>6. CASE CheckCapacity(r) BY <1>1, <1>6, CheckMissesNothing
<1>7. CASE FinishScan(r)
  <2>1. /\ pc[r] = "scan"
        /\ UNCHANGED <<agents, slots_total, socket, slots_processing, unscanned, visiting, best,
                       holder, buffered, notified>>
    BY <1>7 DEF FinishScan, agentVars, bufferVars
  <2>2. HasCapacity(id)' <=> HasCapacity(id) BY <2>1 DEF HasCapacity
  <2>3. SignalDue(id) => SignalDue(id)'
    <3>1. \A p \in Request \ {r} : pc'[p] = pc[p] BY <1>7 DEF FinishScan, TypeOK
    <3>2. QED BY <2>1, <3>1, RequestKeepsSignalDue
  <2>4. QED BY <1>1, <2>1, <2>2, <2>3 DEF MissedNothing
<1>8. CASE Arrive(r) \/ ClaimContended(r) \/ EnterBuffer(r) \/ Wake(r)
  \* A new scan has every entry ahead of it.
  <2>1. unscanned'[r] = AgentId
    BY <1>8 DEF Arrive, ClaimContended, EnterBuffer, Wake, BeginScan, TypeOK
  <2>2. QED BY <2>1 DEF MissedNothing
<1>9. CASE ClaimSlot(r) \/ CheckBuffer(r) \/ Dispatched(r) \/ Decline(r) \/ GiveUp(r)
  <2>1. pc'[r] \in {"claimed", "done", "enter", "dispatched"}
    BY <1>9 DEF ClaimSlot, CheckBuffer, Dispatched, Decline, GiveUp, TypeOK
  <2>2. QED BY <2>1 DEF MissedNothing
<1>10. ASSUME NEW q \in Request \ {r},
              \/ \E seen \in AgentId : VisitEntry(q, seen)
              \/ Arrive(q) \/ CheckCapacity(q) \/ FinishScan(q) \/ ClaimSlot(q)
              \/ ClaimContended(q) \/ CheckBuffer(q) \/ EnterBuffer(q) \/ Wake(q)
              \/ Dispatched(q) \/ Decline(q) \/ GiveUp(q)
       PROVE  MissedNothing(r, id)'
  <2>1. /\ pc[q] # "released"
        /\ UNCHANGED <<agents, slots_total, socket>>
    BY <1>10 DEF VisitEntry, Arrive, CheckCapacity, FinishScan, ClaimSlot, ClaimContended,
       CheckBuffer, EnterBuffer, Wake, Dispatched, Decline, GiveUp, agentVars
  <2>2. \A p \in Request \ {q} :
            /\ pc'[p] = pc[p] /\ holder'[p] = holder[p] /\ best'[p] = best[p]
            /\ visiting'[p] = visiting[p] /\ unscanned'[p] = unscanned[p]
    BY <1>10 DEF VisitEntry, Arrive, CheckCapacity, FinishScan, ClaimSlot, ClaimContended,
       CheckBuffer, EnterBuffer, Wake, Dispatched, Decline, GiveUp, BeginScan, TypeOK
  <2>3. \A c \in Controller :
            slots_processing'[c] \in Int /\ slots_processing'[c] >= slots_processing[c]
    <3>1. CASE ClaimSlot(q)
      BY <3>1 DEF ClaimSlot, TypeOK, Candidate
    <3>2. CASE UNCHANGED slots_processing BY <3>2 DEF TypeOK
    <3>3. QED BY <1>10, <3>1, <3>2 DEF VisitEntry, Arrive, CheckCapacity, FinishScan,
             ClaimContended, CheckBuffer, EnterBuffer, Wake, Dispatched, Decline, GiveUp
  <2>4. r \in buffered' \ notified' => r \in buffered \ notified
    BY <1>10 DEF VisitEntry, Arrive, CheckCapacity, FinishScan, ClaimSlot, ClaimContended,
       CheckBuffer, EnterBuffer, Wake, Dispatched, Decline, GiveUp, LeaveBuffer, bufferVars
  <2>5. QED BY <1>1, <1>10, <2>1, <2>2, <2>3, <2>4, OtherRequestMissesNothing
<1>11. QED BY <1>2, <1>3, <1>4, <1>5, <1>6, <1>7, <1>8, <1>9, <1>10 DEF Next, RequestStep

-----------------------------------------------------------------------------
\* The inductive invariant holds initially.
LEMMA InitIInv == Init => IInv
<1> SUFFICES ASSUME Init PROVE IInv OBVIOUS
<1>1. TypeOK BY InitTypeOK
<1>2. PoolShape /\ ReferencesCreated /\ RequestShape /\ CandidateHadCapacity
  BY DispatchAssumption DEF Init, PoolShape, ReferencesCreated, Created, RequestShape,
     CandidateHadCapacity, NoCandidate
<1>3. ScanMissedNothing BY DEF Init, ScanMissedNothing
<1>4. \A c \in Controller : Claims(c) = {} BY DispatchAssumption DEF Init, Claims
<1>5. SlotConservation /\ NoOversubscription
  BY <1>4, FS_EmptySet DEF Init, SlotConservation, NoOversubscription
<1>6. BufferCounted BY FS_EmptySet DEF Init, BufferCounted
<1>7. QED BY <1>1, <1>2, <1>3, <1>5, <1>6 DEF IInv

\* Every step keeps the inductive invariant.
LEMMA NextIInv == IInv /\ [Next]_vars => IInv'
<1> SUFFICES ASSUME IInv, [Next]_vars PROVE IInv' OBVIOUS
<1>1. CASE Next
  BY <1>1, NextTypeOK, NextPoolShape, NextReferencesCreated, NextRequestShape,
     NextCandidateHadCapacity, NextScanMissedNothing, NextSlotConservation,
     NextNoOversubscription, NextBufferCounted DEF IInv
<1>2. CASE UNCHANGED vars
  <2>1. TypeOK' BY <1>2 DEF IInv, vars, TypeOK
  <2>2. PoolShape' /\ ReferencesCreated' /\ RequestShape' /\ CandidateHadCapacity'
    BY <1>2 DEF IInv, vars, PoolShape, ReferencesCreated, Created, RequestShape,
       CandidateHadCapacity
  <2>3. ScanMissedNothing'
    BY <1>2 DEF IInv, vars, ScanMissedNothing, HasCapacity, SignalDue
  <2>4. SlotConservation' /\ NoOversubscription' /\ BufferCounted'
    BY <1>2 DEF IInv, vars, SlotConservation, NoOversubscription, BufferCounted, Claims
  <2>5. QED BY <2>1, <2>2, <2>3, <2>4 DEF IInv
<1>3. QED BY <1>1, <1>2

\* A parked request has finished a scan that missed nothing.
LEMMA IInvNoLostWakeup == IInv => NoLostWakeup
BY DEF IInv, NoLostWakeup, ScanMissedNothing, RequestShape

\* The inductive invariant holds in every reachable state.
LEMMA Invariance == Spec => []IInv
BY InitIInv, NextIInv, PTL DEF Spec

\* No interleaving of scans, compare-and-swap claims, guard drops and
\* re-registrations loses or duplicates a slot, for all constants.
THEOREM SlotsConserved == Spec => []SlotConservation
<1>1. IInv => SlotConservation BY DEF IInv
<1>2. QED BY <1>1, Invariance, PTL

\* Claims never exceed the capacity an agent reported unless the agent lowers it.
THEOREM NeverOversubscribed == Spec => []NoOversubscription
<1>1. IInv => NoOversubscription BY DEF IInv
<1>2. QED BY <1>1, Invariance, PTL

\* The buffer's counter counts the requests in it.
THEOREM BufferIsCounted == Spec => []BufferCounted
<1>1. IInv => BufferCounted BY DEF IInv
<1>2. QED BY <1>1, Invariance, PTL

\* A waiting request without a pending change has missed no free slot: the
\* non-atomic scan loses no wakeup because the wait subscribed first.
THEOREM NoWakeupLost == Spec => []NoLostWakeup
<1>1. QED BY IInvNoLostWakeup, Invariance, PTL

-----------------------------------------------------------------------------
(***************************************************************************)
(* The inductive invariant.                                                *)
(***************************************************************************)
Active == mode \in {"waiting", "register", "send", "forwarding"}
AwaitsAgent == mode \in {"forwarding", "draining"}

\* The request message of use a is on its way to the agent.
Requested(a) == \E i \in 1 .. Len(to_agent) : to_agent[i] = RequestMessage(a)

SentOnce(a) ==
    \A i, j \in 1 .. Len(to_agent) :
        to_agent[i] = RequestMessage(a) /\ to_agent[j] = RequestMessage(a) => i = j

HasTerminal(a) == \E i \in 1 .. Len(received[a]) : Terminal(received[a][i])

\* What has not begun has left no trace at the client.
NotBegun ==
    /\ \A a \in Attempt : a > attempt =>
           received[a] = <<>> /\ a \notin withdrawn /\ a \notin abandoned
    /\ mode \in {"waiting", "register", "send"} => received[attempt] = <<>>

\* Nor at the agent, before its request is sent.
NotSent(a) == a > attempt \/ (a = attempt /\ mode \in {"waiting", "register", "send"})

NotAtAgent ==
    /\ \A a \in Attempt : NotSent(a) => job[a] = "none" /\ ~Requested(a)
    /\ \A a \in Attempt : job[a] = "none" => generated[a] = 0

\* A token that is cancelled, and a client that has gone, are withdrawals of the
\* request that is under way.
WithdrawalIsKnown ==
    mode \notin {"idle", "finished"} /\ (cancelled \/ client = "gone") => attempt \in withdrawn

\* A stream has no terminal message while it is forwarded, at most one, last,
\* afterwards, and only a withdrawn one ends without.
StreamShape ==
    /\ Active => ~HasTerminal(attempt)
    /\ \A a \in Attempt : \A i \in 1 .. Len(received[a]) :
           Terminal(received[a][i]) => i = Len(received[a])
    /\ \A a \in Attempt :
           Over(a) \/ (a = attempt /\ mode = "draining") => HasTerminal(a) \/ a \in withdrawn

\* Only a use that is over was given up.
AbandonedIsOver == \A a \in abandoned : Over(a)

\* While the connection lives the one stopper is that of the one job.
StopperShape ==
    link = "open" => \A a \in Attempt : job[a] \in {"running", "terminated"} => stopper = a

\* No response can have been left behind: nothing was lost, nothing given up.
Clean == link = "open" /\ ~shutdown /\ abandoned = {}

\* Without a request at the agent there is nothing in the queues.
QuietBetweenUses ==
    Clean =>
        /\ ~AwaitsAgent => /\ to_balancer = <<>>
                           /\ responses = <<>>
                           /\ \A a \in Attempt : job[a] # "running" /\ ~Requested(a)
        /\ mode \in {"waiting", "register", "send"} => inbox = <<>>

\* What is in the queues belongs to the current use.
OwnPipeline ==
    Clean /\ AwaitsAgent =>
        /\ \A i \in 1 .. Len(inbox) : inbox[i].job = attempt
        /\ \A i \in 1 .. Len(to_balancer) : to_balancer[i].job = attempt
        /\ \A i \in 1 .. Len(responses) : responses[i].job = attempt
        /\ \A a \in Attempt : job[a] = "running" \/ Requested(a) => a = attempt

\* The request comes before everything, and once.
RequestIsFirst ==
    Clean /\ AwaitsAgent =>
        /\ Requested(attempt) => job[attempt] = "none"
        /\ SentOnce(attempt)
        /\ job[attempt] = "none" => /\ inbox = <<>>
                                    /\ to_balancer = <<>>
                                    /\ responses = <<>>
                                    /\ mode = "forwarding" => received[attempt] = <<>>

\* The terminal response comes after everything.
DoneIsLast ==
    Clean /\ AwaitsAgent =>
        /\ \A i \in 1 .. Len(inbox) : inbox[i].kind = "done" =>
               /\ i = Len(inbox) /\ to_balancer = <<>> /\ responses = <<>>
               /\ job[attempt] \in {"terminated", "dropped"}
        /\ \A i \in 1 .. Len(to_balancer) : to_balancer[i].kind = "done" =>
               /\ i = Len(to_balancer) /\ responses = <<>>
               /\ job[attempt] \in {"terminated", "dropped"}
        /\ \A i \in 1 .. Len(responses) : responses[i].kind = "done" =>
               /\ i = Len(responses)
               /\ job[attempt] \in {"terminated", "dropped"}

\* Along the queues the responses carry the numbers in which they were generated.
Numbered ==
    Clean /\ mode = "forwarding" =>
        LET r == Len(received[attempt])
            s == r + Len(inbox)
            t == s + Len(to_balancer)
        IN  /\ \A i \in 1 .. Len(inbox) : inbox[i].index = r + i
            /\ \A i \in 1 .. Len(to_balancer) : to_balancer[i].index = s + i
            /\ \A i \in 1 .. Len(responses) : responses[i].index = t + i
            /\ job[attempt] = "running" => generated[attempt] = t + Len(responses)

StreamInv == NotBegun /\ WithdrawalIsKnown /\ StreamShape /\ AbandonedIsOver
AgentInv == NotAtAgent /\ StopperShape
PipelineInv ==
    QuietBetweenUses /\ OwnPipeline /\ RequestIsFirst /\ DoneIsLast /\ Numbered
ForwardingInv ==
    /\ ForwardingTypeOK /\ StreamInv /\ AgentInv /\ PipelineInv
    /\ OwnResponsesInOrder /\ SlotHeldWhileAgentWorks

-----------------------------------------------------------------------------
(***************************************************************************)
(* Messages and queues.                                                    *)
(***************************************************************************)
\* What Head and Tail are of a queue that has an element.
LEMMA QueueTail ==
    ASSUME NEW S, NEW s \in Seq(S), s # <<>>
    PROVE  /\ Head(s) \in S /\ Head(s) = s[1]
           /\ Tail(s) \in Seq(S) /\ Len(Tail(s)) = Len(s) - 1
           /\ Len(s) \in Nat \ {0}
           /\ \A i \in 1 .. Len(Tail(s)) : Tail(s)[i] = s[i + 1] /\ i + 1 \in 1 .. Len(s)
  OBVIOUS

\* What Append makes of a queue.
LEMMA QueueAppend ==
    ASSUME NEW S, NEW s \in Seq(S), NEW e \in S
    PROVE  /\ Append(s, e) \in Seq(S) /\ Len(Append(s, e)) = Len(s) + 1
           /\ Append(s, e)[Len(s) + 1] = e
           /\ \A i \in 1 .. Len(s) : Append(s, e)[i] = s[i]
           /\ \A i \in 1 .. Len(Append(s, e)) : i \in 1 .. Len(s) \/ i = Len(s) + 1
           /\ Len(s) \in Nat
  OBVIOUS

\* A message to the agent is the stop or the request of one use.
LEMMA MessageKinds ==
    /\ StopMessage \in ToAgent /\ StopMessage.kind = "stop"
    /\ \A a \in Attempt : /\ RequestMessage(a) \in ToAgent
                          /\ RequestMessage(a).kind = "request"
                          /\ RequestMessage(a).attempt = a
                          /\ RequestMessage(a) # StopMessage
    /\ \A m \in ToAgent : m.kind = "request" => m.attempt \in Attempt /\ m = RequestMessage(m.attempt)
    /\ \A m \in ToAgent : m.kind = "stop" => m = StopMessage
  <1>1. StopMessage \in ToAgent /\ StopMessage.kind = "stop"
      BY DEF ToAgent, StopMessage
  <1>2. ASSUME NEW a \in Attempt
        PROVE  /\ RequestMessage(a) \in ToAgent
               /\ RequestMessage(a).kind = "request"
               /\ RequestMessage(a).attempt = a
    <2>1. RequestMessage(a) \in ToAgent
        BY DEF ToAgent
    <2> QED
        BY <2>1 DEF RequestMessage
  <1>3. ASSUME NEW m \in ToAgent
        PROVE  m = StopMessage \/ \E a \in Attempt : m = RequestMessage(a)
      BY <1>3 DEF ToAgent
  <1>4. "stop" # "request"
      OBVIOUS
  <1> QED
      BY <1>1, <1>2, <1>3, <1>4

\* While a request is under way its use is one of the uses.
LEMMA CurrentUse ==
    ForwardingTypeOK /\ mode # "idle" => attempt \in Attempt
  BY ForwardingAssumption DEF ForwardingTypeOK, Attempt

-----------------------------------------------------------------------------
(***************************************************************************)
(* Types.                                                                  *)
(***************************************************************************)
\* Sending to the client keeps the type of what it has received.
LEMMA SendToClientType ==
    ASSUME ForwardingTypeOK, mode # "idle",
           NEW m \in Response \cup ErrorEnvelope, SendToClient(m)
    PROVE  received' \in [Attempt -> Seq(Response \cup ErrorEnvelope)]
  <1>1. attempt \in Attempt
      BY CurrentUse
  <1>2. Append(received[attempt], m) \in Seq(Response \cup ErrorEnvelope)
      BY <1>1, QueueAppend DEF ForwardingTypeOK
  <1> QED
      BY <1>1, <1>2 DEF SendToClient, ForwardingTypeOK

\* An error is a message to the client.
LEMMA ErrorType == [kind |-> "error"] \in ErrorEnvelope
  BY DEF ErrorEnvelope

\* Asking the agent to stop keeps the type of its queue.
LEMMA StopType ==
    ASSUME ForwardingTypeOK, StopRespondingTo
    PROVE  to_agent' \in Seq(ToAgent)
  BY MessageKinds, QueueAppend DEF StopRespondingTo, ForwardingTypeOK

\* Every variable of the forwarding keeps its type in a step.
LEMMA ForwardingTypeStep ==
    ForwardingTypeOK /\ [ForwardingNext]_forwardingVars => ForwardingTypeOK'
  <1> SUFFICES ASSUME ForwardingTypeOK, [ForwardingNext]_forwardingVars
               PROVE  ForwardingTypeOK'
      OBVIOUS
  <1> USE ForwardingAssumption, CurrentUse
  <1>1. CASE Environment
    <2> USE DEF ForwardingTypeOK, Modes, Attempt, balancerVars, atAgentVars
    <2>1. CASE NewRequest
      <3>1. attempt' \in 0 .. MaxAttempts /\ mode' \in Modes /\ (attempt' = 0) = (mode' = "idle")
          BY <2>1 DEF NewRequest
      <3>2. inbox' \in Seq(Response)
          BY <2>1 DEF NewRequest
      <3> QED
          BY <2>1, <3>1, <3>2 DEF NewRequest
    <2>2. CASE CancelRequest
        BY <2>2 DEF CancelRequest
    <2>3. CASE LeaveClient
        BY <2>3 DEF LeaveClient
    <2>4. CASE CloseClient
        BY <2>4 DEF CloseClient
    <2>5. CASE Shutdown
        BY <2>5 DEF Shutdown
    <2>6. CASE CloseAgent
        BY <2>6 DEF CloseAgent
    <2> QED
        BY <1>1, <2>1, <2>2, <2>3, <2>4, <2>5, <2>6 DEF Environment
  <1>2. CASE BalancerStep
    <2> USE ErrorType DEF RespondWithError, environmentVars, atAgentVars
    <2>1. CASE FoundAgent
        BY <2>1 DEF FoundAgent, ForwardingTypeOK, Modes
    <2>2. CASE NoAgent
      <3>1. received' \in [Attempt -> Seq(Response \cup ErrorEnvelope)]
          BY <2>2, SendToClientType DEF NoAgent, ForwardingTypeOK
      <3> QED
          BY <2>2, <3>1 DEF NoAgent, ForwardingTypeOK, Modes
    <2>3. CASE RegisterSender
      <3>1. received' \in [Attempt -> Seq(Response \cup ErrorEnvelope)]
          BY <2>3, SendToClientType DEF RegisterSender, ForwardingTypeOK
      <3> QED
          BY <2>3, <3>1 DEF RegisterSender, ForwardingTypeOK, Modes
    <2>4. CASE SendRequest
      <3>1. to_agent' \in Seq(ToAgent)
          BY <2>4, MessageKinds, QueueAppend DEF SendRequest, ForwardingTypeOK
      <3> QED
          BY <2>4, <3>1 DEF SendRequest, ForwardingTypeOK, Modes
    <2>5. CASE SendRequestFails
      <3>1. received' \in [Attempt -> Seq(Response \cup ErrorEnvelope)]
          BY <2>5, SendToClientType DEF SendRequestFails, ForwardingTypeOK
      <3> QED
          BY <2>5, <3>1 DEF SendRequestFails, ForwardingTypeOK, Modes
    <2>6. CASE ShutdownCancelled
      <3>1. received' \in [Attempt -> Seq(Response \cup ErrorEnvelope)]
          BY <2>6, SendToClientType DEF ShutdownCancelled, ForwardingTypeOK
      <3>2. to_agent' \in Seq(ToAgent)
          BY <2>6, StopType DEF ShutdownCancelled, ForwardingTypeOK
      <3> QED
          BY <2>6, <3>1, <3>2 DEF ShutdownCancelled, ForwardingTypeOK, Modes
    <2>7. CASE AgentConnectionClose
      <3>1. received' \in [Attempt -> Seq(Response \cup ErrorEnvelope)]
          BY <2>7, SendToClientType DEF AgentConnectionClose, ForwardingTypeOK
      <3> QED
          BY <2>7, <3>1 DEF AgentConnectionClose, ForwardingTypeOK, Modes
    <2>8. CASE ConnectionClose
      <3>1. to_agent' \in Seq(ToAgent)
          BY <2>8, StopType DEF ConnectionClose
      <3> QED
          BY <2>8, <3>1 DEF ConnectionClose, ModeAfterStop, ForwardingTypeOK, Modes
    <2>9. CASE ItemTimeout
      <3>1. received' \in [Attempt -> Seq(Response \cup ErrorEnvelope)]
          BY <2>9, SendToClientType DEF ItemTimeout, ForwardingTypeOK
      <3>2. to_agent' \in Seq(ToAgent)
          BY <2>9, StopType DEF ItemTimeout
      <3> QED
          BY <2>9, <3>1, <3>2 DEF ItemTimeout, ModeAfterStop, ForwardingTypeOK, Modes
    <2>10. CASE DrainTimeout
        BY <2>10 DEF DrainTimeout, ForwardingTypeOK, Modes
    <2>11. CASE ReceiveWhileForwarding
      <3>1. Head(inbox) \in Response /\ inbox' \in Seq(Response)
          BY <2>11, QueueTail DEF ReceiveWhileForwarding, ForwardingTypeOK
      <3>2. received' \in [Attempt -> Seq(Response \cup ErrorEnvelope)]
          BY <2>11, <3>1, SendToClientType DEF ReceiveWhileForwarding, ForwardingTypeOK
      <3>3. to_agent' \in Seq(ToAgent)
          BY <2>11, StopType DEF ReceiveWhileForwarding, ForwardingTypeOK
      <3> QED
          BY <2>11, <3>1, <3>2, <3>3
          DEF ReceiveWhileForwarding, ModeAfterStop, ForwardingTypeOK, Modes
    <2>12. CASE ReceiveWhileDraining
      <3>1. inbox' \in Seq(Response)
          BY <2>12, QueueTail DEF ReceiveWhileDraining, ForwardingTypeOK
      <3> QED
          BY <2>12, <3>1 DEF ReceiveWhileDraining, ForwardingTypeOK, Modes
    <2> QED
        BY <1>2, <2>1, <2>2, <2>3, <2>4, <2>5, <2>6, <2>7, <2>8, <2>9, <2>10, <2>11, <2>12
        DEF BalancerStep
  <1>3. CASE ForwardResponse
    <2>1. to_balancer' \in Seq(Response) /\ inbox' \in Seq(Response)
        BY <1>3, QueueTail, QueueAppend DEF ForwardResponse, ForwardingTypeOK
    <2> QED
        BY <1>3, <2>1 DEF ForwardResponse, ForwardingTypeOK, environmentVars, atAgentVars
  <1>4. CASE GenerateResponses
    <2>1. to_agent' \in Seq(ToAgent) /\ Head(to_agent).attempt \in Attempt
        BY <1>4, QueueTail, MessageKinds DEF GenerateResponses, ForwardingTypeOK
    <2>2. Head(to_agent).attempt \in 0 .. MaxAttempts
        BY <2>1 DEF Attempt
    <2>3. stopper' \in 0 .. MaxAttempts
        BY <1>4, <2>2 DEF GenerateResponses, ForwardingTypeOK
    <2>5. responses' \in Seq(Response)
      <3>1. <<>> \in Seq(Response)
          OBVIOUS
      <3> QED
          BY <1>4, <3>1 DEF GenerateResponses, ForwardingTypeOK
    <2>4. job' \in [Attempt -> {"none", "running", "terminated", "dropped"}]
        BY <1>4, <2>1 DEF GenerateResponses, ForwardingTypeOK
    <2> QED
        BY <1>4, <2>1, <2>3, <2>4, <2>5
        DEF GenerateResponses, ForwardingTypeOK, balancerVars, environmentVars
  <1>5. CASE StopStream
    <2>1. to_agent' \in Seq(ToAgent)
        BY <1>5, QueueTail DEF StopStream, ForwardingTypeOK
    <2>2. stopped' \in SUBSET Attempt
        BY <1>5 DEF StopStream, ForwardingTypeOK, Attempt
    <2> QED
        BY <1>5, <2>1, <2>2 DEF StopStream, ForwardingTypeOK, balancerVars, environmentVars
  <1>6. ASSUME NEW a \in Attempt, GenerateToken(a) \/ Terminate(a) \/ DropRequest(a)
        PROVE  ForwardingTypeOK'
    <2>1. generated[a] \in 0 .. MaxTokens /\ generated[a] + 1 \in Nat
        BY DEF ForwardingTypeOK
    <2>2. \A kind \in {"token", "done"} :
              [kind |-> kind, job |-> a, index |-> generated[a] + 1] \in Response
        BY <2>1 DEF Response
    <2>3. responses' \in Seq(Response)
      <3>1. \A kind \in {"token", "done"} :
                Emit(a, kind, generated[a] + 1) => responses' \in Seq(Response)
          BY <2>2, QueueAppend DEF Emit, ForwardingTypeOK
      <3> QED
          BY <1>6, <3>1 DEF GenerateToken, Terminate, DropRequest, ForwardingTypeOK
    <2>4. generated' \in [Attempt -> 0 .. MaxTokens]
      <3>1. generated[a] < MaxTokens => generated[a] + 1 \in 0 .. MaxTokens
          BY <2>1
      <3>2. generated[a] + 1 \in 0 .. MaxTokens =>
                [generated EXCEPT ![a] = @ + 1] \in [Attempt -> 0 .. MaxTokens]
          BY DEF ForwardingTypeOK
      <3> QED
          BY <1>6, <3>1, <3>2 DEF GenerateToken, Terminate, DropRequest, ForwardingTypeOK
    <2>5. job' \in [Attempt -> {"none", "running", "terminated", "dropped"}]
        BY <1>6 DEF GenerateToken, Terminate, DropRequest, ForwardingTypeOK
    <2> QED
        BY <1>6, <2>3, <2>4, <2>5
        DEF GenerateToken, Terminate, DropRequest, ForwardingTypeOK, balancerVars, environmentVars
  <1>7. CASE ForwardToBalancer
    <2>1. to_balancer' \in Seq(Response) /\ responses' \in Seq(Response)
        BY <1>7, QueueTail, QueueAppend DEF ForwardToBalancer, ForwardingTypeOK
    <2> QED
        BY <1>7, <2>1 DEF ForwardToBalancer, ForwardingTypeOK, balancerVars, environmentVars
  <1>8. CASE EndForwarding
      BY <1>8 DEF EndForwarding, ForwardingTypeOK, balancerVars, environmentVars
  <1>9. CASE UNCHANGED forwardingVars
      BY <1>9 DEF forwardingVars, ForwardingTypeOK
  <1> QED
      BY <1>1, <1>2, <1>3, <1>4, <1>5, <1>6, <1>7, <1>8, <1>9 DEF ForwardingNext

-----------------------------------------------------------------------------
(***************************************************************************)
(* The stream a client sees.                                               *)
(***************************************************************************)
\* What a client has received ends with what was sent to it, if it is there.
LEMMA Sent ==
    ASSUME ForwardingTypeOK, mode # "idle",
           NEW m \in Response \cup ErrorEnvelope, SendToClient(m)
    PROVE  /\ attempt \in Attempt
           /\ \A a \in Attempt : a # attempt => received'[a] = received[a]
           /\ client = "open" => received'[attempt] = Append(received[attempt], m)
           /\ client # "open" => received'[attempt] = received[attempt]
  BY CurrentUse DEF SendToClient, ForwardingTypeOK

\* The shape of a stream after a message.
LEMMA SentShape ==
    ASSUME ForwardingTypeOK, mode # "idle", ~HasTerminal(attempt),
           NEW m \in Response \cup ErrorEnvelope, SendToClient(m), attempt' = attempt,
           \A a \in Attempt : \A i \in 1 .. Len(received[a]) :
               Terminal(received[a][i]) => i = Len(received[a])
    PROVE  /\ \A a \in Attempt : a # attempt => (HasTerminal(a)' <=> HasTerminal(a))
           /\ client # "open" => ~HasTerminal(attempt)'
           /\ client = "open" => (HasTerminal(attempt)' <=> Terminal(m))
           /\ \A a \in Attempt : \A i \in 1 .. Len(received'[a]) :
                  Terminal(received'[a][i]) => i = Len(received'[a])
  <1>1. /\ attempt \in Attempt
        /\ \A a \in Attempt : a # attempt => received'[a] = received[a]
        /\ client = "open" => received'[attempt] = Append(received[attempt], m)
        /\ client # "open" => received'[attempt] = received[attempt]
      BY Sent
  <1>2. \A a \in Attempt : a # attempt => (HasTerminal(a)' <=> HasTerminal(a))
      BY <1>1 DEF HasTerminal
  <1>3. client # "open" => ~HasTerminal(attempt)'
      BY <1>1 DEF HasTerminal
  <1>4. received[attempt] \in Seq(Response \cup ErrorEnvelope)
      BY <1>1 DEF ForwardingTypeOK
  <1>5. client = "open" =>
            /\ Len(received'[attempt]) = Len(received[attempt]) + 1
            /\ received'[attempt][Len(received[attempt]) + 1] = m
            /\ \A i \in 1 .. Len(received[attempt]) :
                   received'[attempt][i] = received[attempt][i]
            /\ \A i \in 1 .. Len(received'[attempt]) :
                   i \in 1 .. Len(received[attempt]) \/ i = Len(received[attempt]) + 1
            /\ Len(received[attempt]) \in Nat
      BY <1>1, <1>4, QueueAppend
  <1>6. client = "open" => (HasTerminal(attempt)' <=> Terminal(m))
    <2> SUFFICES ASSUME client = "open" PROVE HasTerminal(attempt)' <=> Terminal(m)
        OBVIOUS
    <2>1. ASSUME Terminal(m) PROVE HasTerminal(attempt)'
        BY <1>5, <2>1 DEF HasTerminal
    <2>2. ASSUME HasTerminal(attempt)' PROVE Terminal(m)
      <3>1. PICK i \in 1 .. Len(received'[attempt]) : Terminal(received'[attempt][i])
          BY <2>2 DEF HasTerminal
      <3>2. i \notin 1 .. Len(received[attempt])
          BY <1>5, <3>1 DEF HasTerminal
      <3> QED
          BY <1>5, <3>1, <3>2
    <2> QED
        BY <2>1, <2>2
  <1>7. ASSUME NEW a \in Attempt, NEW i \in 1 .. Len(received'[a]), Terminal(received'[a][i])
        PROVE  i = Len(received'[a])
    <2>1. CASE a = attempt /\ client = "open"
        BY <1>5, <1>7, <2>1 DEF HasTerminal
    <2>2. CASE a # attempt \/ client # "open"
        BY <1>1, <1>7, <2>2
    <2> QED
        BY <2>1, <2>2
  <1> QED
      BY <1>2, <1>3, <1>6, <1>7

\* The balancer tells the client an error and the request is over, or drained.
LEMMA ErrorEnds ==
    ASSUME ForwardingTypeOK, StreamInv, Active, RespondWithError,
           mode' \in {"draining", "finished"},
           attempt' = attempt, UNCHANGED <<environmentVars, abandoned>>
    PROVE  StreamInv'
  <1>1. /\ mode # "idle" /\ [kind |-> "error"] \in Response \cup ErrorEnvelope
        /\ ~HasTerminal(attempt) /\ Terminal([kind |-> "error"])
        /\ SendToClient([kind |-> "error"])
        /\ \A a \in Attempt : \A i \in 1 .. Len(received[a]) :
               Terminal(received[a][i]) => i = Len(received[a])
      BY ErrorType DEF Active, RespondWithError, StreamInv, StreamShape, Terminal
  <1>2. /\ attempt \in Attempt
        /\ \A a \in Attempt : a # attempt => received'[a] = received[a]
      BY <1>1, Sent
  <1>3. /\ \A a \in Attempt : a # attempt => (HasTerminal(a)' <=> HasTerminal(a))
        /\ client = "open" => HasTerminal(attempt)'
        /\ \A a \in Attempt : \A i \in 1 .. Len(received'[a]) :
                  Terminal(received'[a][i]) => i = Len(received'[a])
      BY <1>1, SentShape
  <1>4. client # "open" => attempt \in withdrawn
      BY DEF StreamInv, WithdrawalIsKnown, Active, ForwardingTypeOK
  <1>5. NotBegun'
      BY <1>2 DEF StreamInv, NotBegun, environmentVars, ForwardingTypeOK, Attempt
  <1>6. WithdrawalIsKnown'
      BY DEF StreamInv, WithdrawalIsKnown, environmentVars, Active
  <1>7. StreamShape'
      BY <1>2, <1>3, <1>4 DEF StreamInv, StreamShape, Active, Over, environmentVars
  <1>8. AbandonedIsOver'
      BY DEF StreamInv, AbandonedIsOver, Over, Active
  <1> QED
      BY <1>5, <1>6, <1>7, <1>8 DEF StreamInv

\* What the client has received and the balancer's place stay, or the balancer
\* moves on without a message.
LEMMA SilentStep ==
    ASSUME ForwardingTypeOK, StreamInv, mode # "idle", mode' # "idle",
           UNCHANGED <<attempt, received, environmentVars, abandoned>>,
           mode' \in {"register", "send"} => mode \in {"waiting", "register", "send"},
           mode' = "waiting" => mode = "waiting",
           mode' = "forwarding" => Active,
           mode = "finished" => mode' = "finished",
           mode' = "draining" => mode = "draining" \/ attempt \in withdrawn,
           mode' = "finished" => \/ mode \in {"draining", "finished"}
                                 \/ attempt \in withdrawn
    PROVE  StreamInv'
  <1>1. NotBegun'
      BY DEF StreamInv, NotBegun, environmentVars, ForwardingTypeOK, Modes
  <1>2. WithdrawalIsKnown'
      BY DEF StreamInv, WithdrawalIsKnown, environmentVars
  <1>3. StreamShape'
      BY DEF StreamInv, StreamShape, Active, Over, HasTerminal, environmentVars
  <1>4. AbandonedIsOver'
      BY DEF StreamInv, AbandonedIsOver, Over
  <1> QED
      BY <1>1, <1>2, <1>3, <1>4 DEF StreamInv

\* A response reaches the client, or the client has gone.
LEMMA ResponseForwarded ==
    ASSUME ForwardingTypeOK, StreamInv, ReceiveWhileForwarding
    PROVE  StreamInv'
  <1>1. /\ mode = "forwarding" /\ mode # "idle" /\ attempt' = attempt
        /\ UNCHANGED <<environmentVars, abandoned>>
        /\ SendToClient(Head(inbox))
        /\ mode' \in {"forwarding", "draining", "finished"}
        /\ mode' = "forwarding" => Head(inbox).kind # "done" /\ client = "open"
        /\ mode' # "forwarding" => Head(inbox).kind = "done" \/ client = "gone"
      BY DEF ReceiveWhileForwarding, ModeAfterStop
  <1>2. Head(inbox) \in Response
      BY QueueTail DEF ReceiveWhileForwarding, ForwardingTypeOK
  <1>3. Terminal(Head(inbox)) <=> Head(inbox).kind = "done"
      BY <1>2 DEF Terminal, Response
  <1>4. /\ ~HasTerminal(attempt)
        /\ \A a \in Attempt : \A i \in 1 .. Len(received[a]) :
               Terminal(received[a][i]) => i = Len(received[a])
      BY <1>1 DEF StreamInv, StreamShape, Active
  <1>5. /\ attempt \in Attempt
        /\ \A a \in Attempt : a # attempt => received'[a] = received[a]
      BY <1>1, <1>2, Sent
  <1>6. /\ \A a \in Attempt : a # attempt => (HasTerminal(a)' <=> HasTerminal(a))
        /\ client # "open" => ~HasTerminal(attempt)'
        /\ client = "open" => (HasTerminal(attempt)' <=> Terminal(Head(inbox)))
        /\ \A a \in Attempt : \A i \in 1 .. Len(received'[a]) :
                  Terminal(received'[a][i]) => i = Len(received'[a])
      BY <1>1, <1>2, <1>4, SentShape
  <1>7. client # "open" => client = "gone" /\ attempt \in withdrawn
      BY <1>1 DEF StreamInv, WithdrawalIsKnown, ForwardingTypeOK
  <1>8. NotBegun'
      BY <1>1, <1>5 DEF StreamInv, NotBegun, environmentVars, ForwardingTypeOK, Attempt
  <1>9. WithdrawalIsKnown'
      BY <1>1 DEF StreamInv, WithdrawalIsKnown, environmentVars
  <1>10. StreamShape'
    <2>1. Active' => ~HasTerminal(attempt)'
        BY <1>1, <1>3, <1>6 DEF Active
    <2>2. \A a \in Attempt : Over(a)' \/ (a = attempt /\ mode' = "draining") =>
              HasTerminal(a)' \/ a \in withdrawn'
      <3> SUFFICES ASSUME NEW a \in Attempt, Over(a)' \/ (a = attempt /\ mode' = "draining")
                   PROVE  HasTerminal(a)' \/ a \in withdrawn
          BY <1>1 DEF environmentVars
      <3>1. CASE a = attempt
        <4>1. mode' # "forwarding"
            BY <1>1, <3>1 DEF Over, ForwardingTypeOK
        <4>2. CASE client = "open"
          <5>1. Terminal(Head(inbox))
              BY <1>1, <1>3, <4>1, <4>2
          <5> QED
              BY <1>1, <1>6, <3>1, <4>2, <5>1 DEF HasTerminal
        <4> QED
            BY <1>7, <3>1, <4>2
      <3>2. CASE a # attempt
        <4>1. Over(a)
            BY <1>1, <3>2 DEF Over
        <4>2. HasTerminal(a) \/ a \in withdrawn
            BY <4>1 DEF StreamInv, StreamShape
        <4> QED
            BY <1>6, <3>2, <4>2
      <3> QED
          BY <3>1, <3>2
    <2> QED
        BY <1>1, <1>6, <2>1, <2>2 DEF StreamShape
  <1>11. AbandonedIsOver'
      BY <1>1 DEF StreamInv, AbandonedIsOver, Over
  <1> QED
      BY <1>8, <1>9, <1>10, <1>11 DEF StreamInv

\* A new use begins with nothing, and leaves the earlier ones as they are.
LEMMA RequestBegins ==
    ASSUME ForwardingTypeOK, StreamInv, NewRequest
    PROVE  StreamInv'
  <1>1. /\ attempt' = attempt + 1 /\ attempt \in Nat /\ mode' = "waiting"
        /\ mode \in {"idle", "finished"}
        /\ ~cancelled' /\ client' = "open" /\ attempt' \in Attempt
        /\ UNCHANGED <<received, withdrawn, abandoned>>
      BY ForwardingAssumption DEF NewRequest, ForwardingTypeOK, Attempt
  <1>2. NotBegun'
      BY <1>1 DEF StreamInv, NotBegun, Attempt
  <1>3. WithdrawalIsKnown'
      BY <1>1 DEF WithdrawalIsKnown
  <1>4. StreamShape'
    <2>1. ~HasTerminal(attempt)'
      <3>1. received[attempt + 1] = <<>>
          BY <1>1 DEF StreamInv, NotBegun
      <3> QED
          BY <1>1, <3>1 DEF HasTerminal
    <2>2. \A a \in Attempt : Over(a)' => Over(a)
        BY <1>1 DEF Over, Attempt, ForwardingTypeOK
    <2>3. \A a \in Attempt : HasTerminal(a)' <=> HasTerminal(a)
        BY <1>1 DEF HasTerminal
    <2> QED
        BY <1>1, <2>1, <2>2, <2>3 DEF StreamInv, StreamShape
  <1>5. AbandonedIsOver'
    <2>1. \A a \in Attempt : Over(a) => Over(a)'
        BY <1>1 DEF Over, Attempt
    <2> QED
        BY <1>1, <2>1 DEF StreamInv, AbandonedIsOver, ForwardingTypeOK
  <1> QED
      BY <1>2, <1>3, <1>4, <1>5 DEF StreamInv

\* Nothing the client's stream is made of changes.
LEMMA StreamUntouched ==
    ASSUME ForwardingTypeOK, StreamInv,
           UNCHANGED <<attempt, mode, received, abandoned, cancelled, client, withdrawn>>
    PROVE  StreamInv'
  <1>1. NotBegun' /\ WithdrawalIsKnown' /\ AbandonedIsOver'
      BY DEF StreamInv, NotBegun, WithdrawalIsKnown, AbandonedIsOver, Over
  <1>2. StreamShape'
      BY DEF StreamInv, StreamShape, Active, HasTerminal, Over
  <1> QED
      BY <1>1, <1>2 DEF StreamInv

\* The client withdraws, or its withdrawal is noticed.
LEMMA ClientWithdraws ==
    ASSUME ForwardingTypeOK, StreamInv, CancelRequest \/ LeaveClient \/ CloseClient
    PROVE  StreamInv'
  <1>1. /\ UNCHANGED <<attempt, mode, received, abandoned>>
        /\ withdrawn \subseteq withdrawn' /\ withdrawn' \subseteq withdrawn \cup {attempt}
        /\ mode \notin {"idle", "finished"} /\ (cancelled' \/ client' = "gone") =>
               attempt \in withdrawn'
      BY DEF CancelRequest, LeaveClient, CloseClient, balancerVars, StreamInv, WithdrawalIsKnown
  <1>2. NotBegun' /\ WithdrawalIsKnown' /\ AbandonedIsOver'
      BY <1>1 DEF StreamInv, NotBegun, WithdrawalIsKnown, AbandonedIsOver, Over,
                  ForwardingTypeOK, Attempt
  <1>3. StreamShape'
      BY <1>1 DEF StreamInv, StreamShape, Active, HasTerminal, Over
  <1> QED
      BY <1>2, <1>3 DEF StreamInv

\* Every step keeps the streams in shape.
LEMMA StreamStep ==
    ForwardingTypeOK /\ StreamInv /\ [ForwardingNext]_forwardingVars => StreamInv'
  <1> SUFFICES ASSUME ForwardingTypeOK, StreamInv, [ForwardingNext]_forwardingVars
               PROVE  StreamInv'
      OBVIOUS
  <1>1. CASE NewRequest
      BY <1>1, RequestBegins
  <1>2. CASE CancelRequest \/ LeaveClient \/ CloseClient
      BY <1>2, ClientWithdraws
  <1>3. CASE \/ Shutdown \/ CloseAgent \/ ForwardResponse \/ GenerateResponses \/ StopStream
             \/ \E a \in Attempt : GenerateToken(a) \/ Terminate(a) \/ DropRequest(a)
             \/ ForwardToBalancer \/ EndForwarding \/ UNCHANGED forwardingVars
    <2>1. UNCHANGED <<attempt, mode, received, abandoned, cancelled, client, withdrawn>>
        BY <1>3 DEF Shutdown, CloseAgent, ForwardResponse, GenerateResponses, StopStream,
                    GenerateToken, Terminate, DropRequest, ForwardToBalancer, EndForwarding,
                    balancerVars, environmentVars, forwardingVars
    <2> QED
        BY <2>1, StreamUntouched
  <1>4. CASE BalancerStep
    <2>1. CASE ReceiveWhileForwarding
        BY <2>1, ResponseForwarded
    <2>2. CASE \/ SendRequestFails
               \/ ItemTimeout
               \/ AgentConnectionClose /\ mode = "forwarding"
               \/ ShutdownCancelled /\ mode = "forwarding"
               \/ RegisterSender /\ mode' = "finished" /\ RespondWithError
               \/ NoAgent /\ ~(cancelled /\ ~shutdown)
      <3>1. /\ Active /\ RespondWithError /\ mode' \in {"draining", "finished"}
            /\ attempt' = attempt /\ UNCHANGED <<environmentVars, abandoned>>
          BY <2>2 DEF SendRequestFails, AgentConnectionClose, ItemTimeout, ShutdownCancelled,
                      RegisterSender, NoAgent, Active, ModeAfterStop
      <3> QED
          BY <3>1, ErrorEnds
    <2>3. CASE DrainTimeout
      <3>1. /\ mode = "draining" /\ mode' = "finished" /\ attempt \in Attempt
            /\ abandoned' = abandoned \cup {attempt}
            /\ UNCHANGED <<attempt, received, environmentVars>>
          BY <2>3, CurrentUse DEF DrainTimeout
      <3>2. NotBegun' /\ WithdrawalIsKnown' /\ AbandonedIsOver'
          BY <3>1 DEF StreamInv, NotBegun, WithdrawalIsKnown, AbandonedIsOver, Over, Attempt,
                      ForwardingTypeOK, environmentVars
      <3>3. StreamShape'
          BY <3>1 DEF StreamInv, StreamShape, Active, HasTerminal, Over, environmentVars
      <3> QED
          BY <3>2, <3>3 DEF StreamInv
    <2>4. CASE \/ FoundAgent \/ SendRequest \/ ConnectionClose \/ ReceiveWhileDraining
               \/ NoAgent /\ cancelled /\ ~shutdown
               \/ RegisterSender /\ mode' = "send" /\ UNCHANGED received
               \/ AgentConnectionClose /\ mode = "draining"
               \/ ShutdownCancelled /\ mode = "draining"
      <3>1. /\ mode # "idle" /\ mode' # "idle"
            /\ UNCHANGED <<attempt, received, environmentVars, abandoned>>
            /\ mode' \in {"register", "send"} => mode \in {"waiting", "register", "send"}
            /\ mode' = "waiting" => mode = "waiting"
            /\ mode' = "forwarding" => Active
            /\ mode = "finished" => mode' = "finished"
            /\ mode' = "draining" => mode = "draining" \/ cancelled
            /\ mode' = "finished" => mode = "draining" \/ cancelled
            /\ cancelled => mode \notin {"idle", "finished"}
          BY <2>4 DEF FoundAgent, NoAgent, RegisterSender, SendRequest, AgentConnectionClose,
                      ShutdownCancelled, ConnectionClose, ReceiveWhileDraining, Active,
                      ModeAfterStop
      <3>2. cancelled => attempt \in withdrawn
          BY <3>1 DEF StreamInv, WithdrawalIsKnown
      <3> QED
          BY <3>1, <3>2, SilentStep
    <2>5. CASE NoAgent
      <3>1. CASE cancelled /\ ~shutdown
          BY <2>5, <3>1, <2>4
      <3>2. CASE ~(cancelled /\ ~shutdown)
          BY <2>5, <3>2, <2>2
      <3> QED
          BY <3>1, <3>2
    <2>6. CASE RegisterSender
      <3>1. \/ RegisterSender /\ mode' = "finished" /\ RespondWithError
            \/ RegisterSender /\ mode' = "send" /\ UNCHANGED received
          BY <2>6 DEF RegisterSender
      <3> QED
          BY <3>1, <2>2, <2>4
    <2>7. CASE ShutdownCancelled \/ AgentConnectionClose
      <3>1. mode = "forwarding" \/ mode = "draining"
          BY <2>7 DEF ShutdownCancelled, AgentConnectionClose
      <3> QED
          BY <3>1, <2>7, <2>2, <2>4
    <2> QED
        BY <1>4, <2>1, <2>2, <2>3, <2>4, <2>5, <2>6, <2>7 DEF BalancerStep
  <1> QED
      BY <1>1, <1>2, <1>3, <1>4 DEF ForwardingNext, Environment

-----------------------------------------------------------------------------
(***************************************************************************)
(* The agent.                                                              *)
(***************************************************************************)
\* Asking the agent to stop leaves the requests on their way where they are.
LEMMA StopKeepsRequests ==
    ASSUME ForwardingTypeOK, StopRespondingTo, NEW a \in Attempt
    PROVE  /\ \A i \in 1 .. Len(to_agent') : to_agent'[i] = RequestMessage(a) =>
                  i \in 1 .. Len(to_agent) /\ to_agent[i] = RequestMessage(a)
           /\ Requested(a)' <=> Requested(a)
  <1>1. to_agent \in Seq(ToAgent) /\ StopMessage \in ToAgent /\ RequestMessage(a) # StopMessage
      BY MessageKinds DEF ForwardingTypeOK
  <1>2. CASE link = "closed"
      BY <1>2 DEF StopRespondingTo, Requested
  <1>3. CASE link # "closed"
    <2>1. to_agent' = Append(to_agent, StopMessage)
        BY <1>3 DEF StopRespondingTo
    <2>2. /\ Len(to_agent') = Len(to_agent) + 1 /\ Len(to_agent) \in Nat
          /\ to_agent'[Len(to_agent) + 1] = StopMessage
          /\ \A i \in 1 .. Len(to_agent) : to_agent'[i] = to_agent[i]
          /\ \A i \in 1 .. Len(to_agent') : i \in 1 .. Len(to_agent) \/ i = Len(to_agent) + 1
        BY <1>1, <2>1, QueueAppend
    <2> QED
        BY <1>1, <2>2 DEF Requested
  <1> QED
      BY <1>2, <1>3

\* A message taken from the queue leaves the requests behind it.
LEMMA TakenKeepsRequests ==
    ASSUME ForwardingTypeOK, to_agent # <<>>, to_agent' = Tail(to_agent), NEW a \in Attempt
    PROVE  /\ \A i \in 1 .. Len(to_agent') : to_agent'[i] = RequestMessage(a) =>
                  i + 1 \in 1 .. Len(to_agent) /\ to_agent[i + 1] = RequestMessage(a)
           /\ Requested(a)' => Requested(a)
  <1>1. to_agent \in Seq(ToAgent)
      BY DEF ForwardingTypeOK
  <1>2. \A i \in 1 .. Len(to_agent') :
            to_agent'[i] = to_agent[i + 1] /\ i + 1 \in 1 .. Len(to_agent)
      BY <1>1, QueueTail
  <1> QED
      BY <1>2 DEF Requested

\* The request of a use is sent.
LEMMA SentRequest ==
    ASSUME ForwardingTypeOK, SendRequest, NEW a \in Attempt
    PROVE  /\ attempt \in Attempt
           /\ \A i \in 1 .. Len(to_agent') : to_agent'[i] = RequestMessage(a) =>
                  \/ i \in 1 .. Len(to_agent) /\ to_agent[i] = RequestMessage(a)
                  \/ i = Len(to_agent) + 1 /\ a = attempt
           /\ Requested(a)' => Requested(a) \/ a = attempt
  <1>1. attempt \in Attempt
      BY CurrentUse DEF SendRequest
  <1>2. /\ RequestMessage(attempt) \in ToAgent
        /\ RequestMessage(a) = RequestMessage(attempt) => a = attempt
      BY <1>1, MessageKinds
  <1>3. /\ Len(to_agent') = Len(to_agent) + 1 /\ Len(to_agent) \in Nat
        /\ to_agent'[Len(to_agent) + 1] = RequestMessage(attempt)
        /\ \A i \in 1 .. Len(to_agent) : to_agent'[i] = to_agent[i]
        /\ \A i \in 1 .. Len(to_agent') : i \in 1 .. Len(to_agent) \/ i = Len(to_agent) + 1
      BY <1>2, QueueAppend DEF SendRequest, ForwardingTypeOK
  <1> QED
      BY <1>1, <1>2, <1>3 DEF Requested

\* No step puts a request on its way to the agent but the one that sends it.
LEMMA RequestsOnTheirWay ==
    ASSUME ForwardingTypeOK, [ForwardingNext]_forwardingVars, ~SendRequest, NEW a \in Attempt
    PROVE  Requested(a)' => Requested(a)
  <1>1. CASE StopRespondingTo
      BY <1>1, StopKeepsRequests
  <1>2. CASE to_agent # <<>> /\ to_agent' = Tail(to_agent)
      BY <1>2, TakenKeepsRequests
  <1>3. CASE to_agent' = to_agent
      BY <1>3 DEF Requested
  <1>4. StopRespondingTo \/ (to_agent # <<>> /\ to_agent' = Tail(to_agent)) \/ to_agent' = to_agent
    <2>1. CASE Environment
        BY <2>1 DEF Environment, NewRequest, CancelRequest, LeaveClient, CloseClient,
                    Shutdown, CloseAgent
    <2>2. CASE BalancerStep
        BY <2>2 DEF BalancerStep, FoundAgent, NoAgent, RegisterSender, SendRequestFails,
                    ShutdownCancelled, AgentConnectionClose, ConnectionClose, ItemTimeout,
                    DrainTimeout, ReceiveWhileForwarding, ReceiveWhileDraining
    <2>3. CASE ~Environment /\ ~BalancerStep
        BY <2>3 DEF ForwardingNext, ForwardResponse, GenerateResponses, StopStream,
                    GenerateToken, Terminate, DropRequest, ForwardToBalancer, EndForwarding,
                    forwardingVars
    <2> QED
        BY <2>1, <2>2, <2>3
  <1> QED
      BY <1>1, <1>2, <1>3, <1>4

\* A use is sent once and stays sent.
LEMMA StaysSent ==
    ASSUME ForwardingTypeOK, [ForwardingNext]_forwardingVars, NEW a \in Attempt
    PROVE  /\ NotSent(a)' => NotSent(a)
           /\ SendRequest => ~NotSent(attempt)' /\ attempt' = attempt
  <1>1. CASE NewRequest
      BY <1>1 DEF NewRequest, NotSent, ForwardingTypeOK, Attempt, SendRequest
  <1>2. CASE Environment /\ ~NewRequest
      BY <1>2 DEF Environment, CancelRequest, LeaveClient, CloseClient, Shutdown, CloseAgent,
                  NotSent, balancerVars, SendRequest
  <1>3. CASE BalancerStep
      BY <1>3 DEF BalancerStep, FoundAgent, NoAgent, RegisterSender, SendRequest, SendRequestFails,
                  ShutdownCancelled, AgentConnectionClose, ConnectionClose, ItemTimeout,
                  DrainTimeout, ReceiveWhileForwarding, ReceiveWhileDraining, NotSent,
                  ModeAfterStop, ForwardingTypeOK
  <1>4. CASE ~Environment /\ ~BalancerStep
      BY <1>4 DEF ForwardingNext, ForwardResponse, GenerateResponses, StopStream,
                  GenerateToken, Terminate, DropRequest, ForwardToBalancer, EndForwarding,
                  balancerVars, forwardingVars, NotSent, BalancerStep
  <1> QED
      BY <1>1, <1>2, <1>3, <1>4

\* The jobs at the agent change in its own steps only.
LEMMA JobsElsewhere ==
    ASSUME Environment \/ BalancerStep \/ ForwardResponse \/ UNCHANGED forwardingVars
    PROVE  UNCHANGED <<stopper, stopped, job, generated, responses>>
  BY DEF Environment, NewRequest, CancelRequest, LeaveClient, CloseClient, Shutdown, CloseAgent,
         BalancerStep, FoundAgent, NoAgent, RegisterSender, SendRequest, SendRequestFails,
         ShutdownCancelled, AgentConnectionClose, ConnectionClose, ItemTimeout, DrainTimeout,
         ReceiveWhileForwarding, ReceiveWhileDraining, ForwardResponse, atAgentVars, forwardingVars

\* The request at the head of the agent's queue.
LEMMA TakenRequest ==
    ASSUME ForwardingTypeOK, to_agent # <<>>, Head(to_agent).kind = "request"
    PROVE  /\ Head(to_agent).attempt \in Attempt
           /\ Head(to_agent) = RequestMessage(Head(to_agent).attempt)
           /\ to_agent[1] = Head(to_agent) /\ 1 \in 1 .. Len(to_agent)
           /\ Requested(Head(to_agent).attempt)
  <1>1. Head(to_agent) \in ToAgent /\ to_agent[1] = Head(to_agent) /\ 1 \in 1 .. Len(to_agent)
      BY QueueTail DEF ForwardingTypeOK
  <1>2. /\ Head(to_agent).attempt \in Attempt
        /\ Head(to_agent) = RequestMessage(Head(to_agent).attempt)
      BY <1>1, MessageKinds
  <1> QED
      BY <1>1, <1>2 DEF Requested

\* Every step keeps the agent's side in order.
LEMMA AgentStep ==
    ForwardingTypeOK /\ AgentInv /\ [ForwardingNext]_forwardingVars => AgentInv'
  <1> SUFFICES ASSUME ForwardingTypeOK, AgentInv, [ForwardingNext]_forwardingVars
               PROVE  AgentInv'
      OBVIOUS
  <1>1. ASSUME NEW a \in Attempt, NotSent(a)' PROVE ~Requested(a)'
    <2>1. NotSent(a) /\ ~Requested(a)
        BY <1>1, StaysSent DEF AgentInv, NotAtAgent
    <2>2. CASE SendRequest
      <3>1. a # attempt
          BY <1>1, <2>2, StaysSent DEF NotSent
      <3> QED
          BY <2>1, <2>2, <3>1, SentRequest
    <2> QED
        BY <2>1, <2>2, RequestsOnTheirWay
  <1>2. ASSUME UNCHANGED <<job, generated>> PROVE NotAtAgent'
      BY <1>1, <1>2, StaysSent DEF AgentInv, NotAtAgent
  <1>3. CASE Environment \/ BalancerStep \/ ForwardResponse \/ UNCHANGED forwardingVars
    <2>1. UNCHANGED <<stopper, job, generated>>
        BY <1>3, JobsElsewhere
    <2>2. link' = "open" => link = "open"
        BY <1>3 DEF Environment, NewRequest, CancelRequest, LeaveClient, CloseClient, Shutdown,
             CloseAgent, BalancerStep, FoundAgent, NoAgent, RegisterSender, SendRequest,
             SendRequestFails, ShutdownCancelled, AgentConnectionClose, ConnectionClose,
             ItemTimeout, DrainTimeout, ReceiveWhileForwarding, ReceiveWhileDraining,
             ForwardResponse, environmentVars, forwardingVars
    <2> QED
        BY <1>2, <2>1, <2>2 DEF AgentInv, StopperShape
  <1>4. CASE StopStream \/ ForwardToBalancer
      BY <1>2, <1>4 DEF StopStream, ForwardToBalancer, environmentVars, AgentInv, StopperShape
  <1>5. CASE GenerateResponses
    <2>1. PICK b \in Attempt : b = Head(to_agent).attempt /\ Requested(b)
        BY <1>5, TakenRequest DEF GenerateResponses
    <2>2. CASE UNCHANGED <<stopper, job, responses>>
        BY <1>2, <1>5, <2>2 DEF GenerateResponses, environmentVars, AgentInv, StopperShape
    <2>3. CASE /\ stopper = 0
               /\ stopper' = b
               /\ job' = [job EXCEPT ![b] = "running"]
      <3>1. link = "open" /\ link' = link /\ UNCHANGED generated
          BY <1>5 DEF GenerateResponses, environmentVars
      <3>2. \A a \in Attempt : job[a] \notin {"running", "terminated"}
          BY <2>3, <3>1 DEF AgentInv, StopperShape, Attempt
      <3>3. StopperShape'
          BY <2>1, <2>3, <3>2 DEF StopperShape, ForwardingTypeOK
      <3>4. ~NotSent(b)'
          BY <2>1, StaysSent DEF AgentInv, NotAtAgent
      <3>5. NotAtAgent'
        <4>1. \A a \in Attempt : NotSent(a)' => job'[a] = "none"
            BY <2>1, <2>3, <3>4, StaysSent DEF AgentInv, NotAtAgent, ForwardingTypeOK
        <4>2. \A a \in Attempt : job'[a] = "none" => generated'[a] = 0
            BY <2>1, <2>3, <3>1 DEF AgentInv, NotAtAgent, ForwardingTypeOK
        <4> QED
            BY <1>1, <4>1, <4>2 DEF NotAtAgent
      <3> QED
          BY <3>3, <3>5 DEF AgentInv
    <2> QED
        BY <1>5, <2>1, <2>2, <2>3 DEF GenerateResponses
  <1>6. ASSUME NEW a \in Attempt, GenerateToken(a) \/ Terminate(a) \/ DropRequest(a)
        PROVE  AgentInv'
    <2>1. /\ job[a] \in {"running", "terminated"}
          /\ UNCHANGED <<stopper, link>>
          /\ \A b \in Attempt : b # a => job'[b] = job[b] /\ generated'[b] = generated[b]
          /\ job'[a] # "none"
        BY <1>6 DEF GenerateToken, Terminate, DropRequest, environmentVars, ForwardingTypeOK
    <2>2. StopperShape'
        BY <2>1 DEF AgentInv, StopperShape
    <2>3. \A b \in Attempt : NotSent(b)' => b # a
        BY <2>1, StaysSent DEF AgentInv, NotAtAgent
    <2>4. NotAtAgent'
        BY <1>1, <2>1, <2>3, StaysSent DEF AgentInv, NotAtAgent
    <2> QED
        BY <2>2, <2>4 DEF AgentInv
  <1>7. CASE EndForwarding
    <2>1. UNCHANGED <<job, generated, link>> /\ stopper # 0
          /\ (job[stopper] = "dropped" \/ link # "open")
        BY <1>7 DEF EndForwarding, environmentVars
    <2>2. StopperShape'
        BY <2>1 DEF AgentInv, StopperShape
    <2> QED
        BY <1>2, <2>1, <2>2 DEF AgentInv
  <1> QED
      BY <1>3, <1>4, <1>5, <1>6, <1>7 DEF ForwardingNext

-----------------------------------------------------------------------------
(***************************************************************************)
(* The queues between the agent's scheduler and the client.                *)
(***************************************************************************)
\* The balancer keeps its place, or asks for no more, and the queues stay.
LEMMA QueuesUntouched ==
    ASSUME PipelineInv, Clean' => Clean,
           UNCHANGED <<attempt, inbox, to_balancer, responses, job, generated>>,
           \A a \in Attempt : Requested(a)' => Requested(a),
           SentOnce(attempt) => SentOnce(attempt)',
           AwaitsAgent' <=> AwaitsAgent,
           mode' = "forwarding" => mode = "forwarding" /\ received' = received,
           mode' \in {"waiting", "register", "send"} => mode \in {"waiting", "register", "send"},
           attempt \in Attempt
    PROVE  PipelineInv'
  <1>1. QuietBetweenUses'
      BY DEF PipelineInv, QuietBetweenUses
  <1>2. OwnPipeline'
      BY DEF PipelineInv, OwnPipeline
  <1>3. RequestIsFirst'
    <2>1. Requested(attempt)' => Requested(attempt)
        BY DEF Requested
    <2> QED
        BY <2>1 DEF PipelineInv, RequestIsFirst
  <1>4. DoneIsLast'
      BY DEF PipelineInv, DoneIsLast
  <1>5. Numbered'
      BY DEF PipelineInv, Numbered
  <1> QED
      BY <1>1, <1>2, <1>3, <1>4, <1>5 DEF PipelineInv

\* Requests stay unique when a stop is added or a message taken.
LEMMA StaysUnique ==
    ASSUME ForwardingTypeOK, NEW a \in Attempt,
           \/ StopRespondingTo
           \/ to_agent # <<>> /\ to_agent' = Tail(to_agent)
           \/ to_agent' = to_agent,
           SentOnce(a)
    PROVE  SentOnce(a)'
  <1>1. CASE StopRespondingTo
      BY <1>1, StopKeepsRequests DEF SentOnce
  <1>2. CASE to_agent # <<>> /\ to_agent' = Tail(to_agent)
    <2> SUFFICES ASSUME NEW i \in 1 .. Len(to_agent'), NEW j \in 1 .. Len(to_agent'),
                        to_agent'[i] = RequestMessage(a), to_agent'[j] = RequestMessage(a)
                 PROVE  i = j
        BY DEF SentOnce
    <2>1. i + 1 = j + 1
        BY <1>2, TakenKeepsRequests DEF SentOnce
    <2> QED
        BY <2>1
  <1>3. CASE to_agent' = to_agent
      BY <1>3 DEF SentOnce
  <1> QED
      BY <1>1, <1>2, <1>3

\* A new use begins.
LEMMA PipelineBegins ==
    ASSUME ForwardingTypeOK, PipelineInv, NewRequest
    PROVE  PipelineInv'
  <1>1. /\ ~AwaitsAgent /\ ~AwaitsAgent' /\ mode' # "forwarding" /\ inbox' = <<>>
        /\ UNCHANGED <<to_agent, to_balancer, responses, job, link, shutdown, abandoned>>
      BY DEF NewRequest, AwaitsAgent, atAgentVars
  <1>2. Clean' => Clean
      BY <1>1 DEF Clean
  <1>3. \A a \in Attempt : Requested(a)' => Requested(a)
      BY <1>1 DEF Requested
  <1>4. QuietBetweenUses'
      BY <1>1, <1>2, <1>3 DEF PipelineInv, QuietBetweenUses
  <1> QED
      BY <1>1, <1>4 DEF PipelineInv, OwnPipeline, RequestIsFirst, DoneIsLast, Numbered

\* The request is sent into empty queues.
LEMMA PipelineOpens ==
    ASSUME ForwardingTypeOK, StreamInv, AgentInv, PipelineInv, SendRequest
    PROVE  PipelineInv'
  <1>1. /\ mode = "send" /\ mode' = "forwarding" /\ ~AwaitsAgent /\ AwaitsAgent'
        /\ UNCHANGED <<attempt, inbox, received, to_balancer, responses, job, generated>>
        /\ Clean' => Clean
      BY DEF SendRequest, AwaitsAgent, atAgentVars, environmentVars, Clean
  <1> SUFFICES ASSUME Clean' PROVE PipelineInv'
      BY DEF PipelineInv, QuietBetweenUses, OwnPipeline, RequestIsFirst, DoneIsLast, Numbered
  <1>2. /\ inbox = <<>> /\ to_balancer = <<>> /\ responses = <<>>
        /\ \A a \in Attempt : job[a] # "running" /\ ~Requested(a)
      BY <1>1 DEF PipelineInv, QuietBetweenUses
  <1>3. attempt \in Attempt
      BY <1>1, CurrentUse
  <1>4. job[attempt] = "none" /\ received[attempt] = <<>>
      BY <1>1, <1>3 DEF AgentInv, NotAtAgent, NotSent, StreamInv, NotBegun
  <1>5. \A a \in Attempt : Requested(a)' => a = attempt
      BY <1>2, SentRequest
  <1>6. SentOnce(attempt)'
    <2>1. \A i \in 1 .. Len(to_agent') : to_agent'[i] = RequestMessage(attempt) =>
              i = Len(to_agent) + 1
        BY <1>2, <1>3, SentRequest DEF Requested
    <2> QED
        BY <1>1, <2>1 DEF SentOnce
  <1>7. QuietBetweenUses'
      BY <1>1 DEF QuietBetweenUses
  <1>8. OwnPipeline'
      BY <1>1, <1>2, <1>5 DEF OwnPipeline
  <1>9. RequestIsFirst'
      BY <1>1, <1>2, <1>4, <1>6 DEF RequestIsFirst
  <1>10. DoneIsLast'
      BY <1>1, <1>2 DEF DoneIsLast
  <1>11. Numbered'
      BY <1>1, <1>2, <1>3, <1>4 DEF Numbered
  <1> QED
      BY <1>7, <1>8, <1>9, <1>10, <1>11 DEF PipelineInv

\* A response is taken from the inbox, forwarded or discarded.
LEMMA PipelineReceives ==
    ASSUME ForwardingTypeOK, PipelineInv, ReceiveWhileForwarding \/ ReceiveWhileDraining
    PROVE  PipelineInv'
  <1>1. /\ AwaitsAgent /\ inbox # <<>> /\ inbox' = Tail(inbox) /\ mode # "idle"
        /\ UNCHANGED <<attempt, to_balancer, responses, job, generated>>
        /\ Clean' => Clean
        /\ Head(inbox).kind = "done" <=> mode' = "finished"
        /\ mode' \in {"forwarding", "draining", "finished"}
        /\ StopRespondingTo \/ to_agent' = to_agent
        /\ mode' = "forwarding" => /\ mode = "forwarding" /\ client = "open"
                                   /\ SendToClient(Head(inbox))
      BY DEF ReceiveWhileForwarding, ReceiveWhileDraining, AwaitsAgent, atAgentVars,
             environmentVars, Clean, ModeAfterStop
  <1> SUFFICES ASSUME Clean' PROVE PipelineInv'
      BY DEF PipelineInv, QuietBetweenUses, OwnPipeline, RequestIsFirst, DoneIsLast, Numbered
  <1>2. /\ Head(inbox) \in Response /\ Head(inbox) = inbox[1]
        /\ Len(inbox') = Len(inbox) - 1 /\ Len(inbox) \in Nat \ {0}
        /\ \A i \in 1 .. Len(inbox') : inbox'[i] = inbox[i + 1] /\ i + 1 \in 1 .. Len(inbox)
      BY <1>1, QueueTail DEF ForwardingTypeOK
  <1>3. attempt \in Attempt
      BY <1>1, CurrentUse
  <1>4. \A a \in Attempt : Requested(a)' => Requested(a)
      BY <1>1, StopKeepsRequests DEF Requested
  <1>5. job[attempt] # "none" /\ ~Requested(attempt) /\ ~Requested(attempt)'
    <2>1. job[attempt] # "none" /\ ~Requested(attempt)
        BY <1>1 DEF PipelineInv, RequestIsFirst
    <2> QED
        BY <1>1, <1>3, <1>4, <2>1 DEF Requested
  <1>6. QuietBetweenUses'
    <2> SUFFICES ASSUME ~AwaitsAgent'
                 PROVE  /\ to_balancer = <<>> /\ responses = <<>>
                        /\ \A a \in Attempt : job[a] # "running" /\ ~Requested(a)'
        BY <1>1 DEF QuietBetweenUses
    <2>1. inbox[1].kind = "done" /\ 1 \in 1 .. Len(inbox)
        BY <1>1, <1>2 DEF AwaitsAgent
    <2>2. /\ to_balancer = <<>> /\ responses = <<>>
          /\ job[attempt] \in {"terminated", "dropped"}
        BY <1>1, <2>1 DEF PipelineInv, DoneIsLast
    <2>3. \A a \in Attempt : job[a] = "running" \/ Requested(a) => a = attempt
        BY <1>1 DEF PipelineInv, OwnPipeline
    <2> QED
        BY <1>4, <1>5, <2>2, <2>3
  <1>7. OwnPipeline'
      BY <1>1, <1>2, <1>4 DEF PipelineInv, OwnPipeline
  <1>8. RequestIsFirst'
    <2>1. SentOnce(attempt)'
        BY <1>1, <1>3, <1>5 DEF SentOnce, Requested
    <2> QED
        BY <1>1, <1>5, <2>1 DEF RequestIsFirst
  <1>9. DoneIsLast'
    <2>1. \A i \in 1 .. Len(inbox') : inbox'[i].kind = "done" =>
              /\ i = Len(inbox') /\ to_balancer = <<>> /\ responses = <<>>
              /\ job[attempt] \in {"terminated", "dropped"}
      <3> SUFFICES ASSUME NEW i \in 1 .. Len(inbox'), inbox'[i].kind = "done"
                   PROVE  /\ i = Len(inbox') /\ to_balancer = <<>> /\ responses = <<>>
                          /\ job[attempt] \in {"terminated", "dropped"}
          OBVIOUS
      <3>1. i + 1 \in 1 .. Len(inbox) /\ inbox[i + 1].kind = "done"
          BY <1>2
      <3>2. /\ i + 1 = Len(inbox) /\ to_balancer = <<>> /\ responses = <<>>
            /\ job[attempt] \in {"terminated", "dropped"}
          BY <1>1, <3>1 DEF PipelineInv, DoneIsLast
      <3> QED
          BY <1>2, <3>2
    <2> QED
        BY <1>1, <2>1 DEF PipelineInv, DoneIsLast
  <1>10. Numbered'
    <2> SUFFICES ASSUME mode' = "forwarding" PROVE Numbered'
        BY DEF Numbered
    <2>1. Len(received'[attempt]) = Len(received[attempt]) + 1 /\ Len(received[attempt]) \in Nat
      <3>1. received'[attempt] = Append(received[attempt], Head(inbox))
          BY <1>1, <1>2, Sent
      <3>2. received[attempt] \in Seq(Response \cup ErrorEnvelope)
          BY <1>3 DEF ForwardingTypeOK
      <3> QED
          BY <1>2, <3>1, <3>2, QueueAppend
    <2>2. Len(to_balancer) \in Nat /\ Len(responses) \in Nat /\ generated[attempt] \in Nat
        BY <1>3 DEF ForwardingTypeOK
    <2> QED
        BY <1>1, <1>2, <2>1, <2>2 DEF PipelineInv, Numbered
  <1> QED
      BY <1>6, <1>7, <1>8, <1>9, <1>10 DEF PipelineInv

\* Responses numbered from n along two queues are still so when one moves over.
LEMMA MovedNumbers ==
    ASSUME NEW p \in Seq(Response), NEW q \in Seq(Response), q # <<>>, NEW n \in Nat,
           \A i \in 1 .. Len(p) : p[i].index = n + i,
           \A i \in 1 .. Len(q) : q[i].index = n + Len(p) + i
    PROVE  /\ \A i \in 1 .. Len(Append(p, Head(q))) : Append(p, Head(q))[i].index = n + i
           /\ \A i \in 1 .. Len(Tail(q)) :
                  Tail(q)[i].index = n + Len(Append(p, Head(q))) + i
           /\ Len(Append(p, Head(q))) + Len(Tail(q)) = Len(p) + Len(q)
  <1>1. /\ Head(q) \in Response /\ Head(q) = q[1] /\ Len(q) \in Nat \ {0}
        /\ Len(Tail(q)) = Len(q) - 1
        /\ \A i \in 1 .. Len(Tail(q)) : Tail(q)[i] = q[i + 1] /\ i + 1 \in 1 .. Len(q)
      BY QueueTail
  <1>2. /\ Len(p) \in Nat /\ Len(Append(p, Head(q))) = Len(p) + 1
        /\ Append(p, Head(q))[Len(p) + 1] = Head(q)
        /\ \A i \in 1 .. Len(p) : Append(p, Head(q))[i] = p[i]
        /\ \A i \in 1 .. Len(Append(p, Head(q))) : i \in 1 .. Len(p) \/ i = Len(p) + 1
      BY <1>1, QueueAppend
  <1>3. ASSUME NEW i \in 1 .. Len(Append(p, Head(q)))
        PROVE  Append(p, Head(q))[i].index = n + i
    <2>1. CASE i \in 1 .. Len(p)
        BY <1>2, <2>1
    <2>2. CASE i = Len(p) + 1
      <3>1. q[1].index = n + Len(p) + 1
          BY <1>1
      <3> QED
          BY <1>1, <1>2, <2>2, <3>1
    <2> QED
        BY <1>2, <2>1, <2>2
  <1>4. ASSUME NEW i \in 1 .. Len(Tail(q))
        PROVE  Tail(q)[i].index = n + Len(Append(p, Head(q))) + i
    <2>1. q[i + 1].index = n + Len(p) + (i + 1)
        BY <1>1
    <2> QED
        BY <1>1, <1>2, <2>1
  <1> QED
      BY <1>1, <1>2, <1>3, <1>4

\* A response moves from the agent's socket to the inbox.
LEMMA PipelineForwards ==
    ASSUME ForwardingTypeOK, PipelineInv, ForwardResponse
    PROVE  PipelineInv'
  <1>1. /\ to_balancer # <<>> /\ to_balancer' = Tail(to_balancer)
        /\ UNCHANGED <<attempt, mode, received, to_agent, responses, job, generated>>
        /\ Clean' => Clean
      BY DEF ForwardResponse, atAgentVars, environmentVars, Clean
  <1> SUFFICES ASSUME Clean' PROVE PipelineInv'
      BY DEF PipelineInv, QuietBetweenUses, OwnPipeline, RequestIsFirst, DoneIsLast, Numbered
  <1>2. AwaitsAgent
      BY <1>1 DEF PipelineInv, QuietBetweenUses
  <1>3. AwaitsAgent' /\ mode # "idle" /\ attempt \in Attempt
      BY <1>1, <1>2, CurrentUse DEF AwaitsAgent
  <1>4. inbox' = Append(inbox, Head(to_balancer))
      BY <1>2 DEF ForwardResponse, SenderRegistered, AwaitsAgent
  <1>5. /\ Head(to_balancer) \in Response /\ Head(to_balancer) = to_balancer[1]
        /\ 1 \in 1 .. Len(to_balancer)
        /\ Len(to_balancer') = Len(to_balancer) - 1 /\ Len(to_balancer) \in Nat \ {0}
        /\ \A i \in 1 .. Len(to_balancer') :
               to_balancer'[i] = to_balancer[i + 1] /\ i + 1 \in 1 .. Len(to_balancer)
      BY <1>1, QueueTail DEF ForwardingTypeOK
  <1>6. /\ Len(inbox') = Len(inbox) + 1 /\ Len(inbox) \in Nat
        /\ inbox'[Len(inbox) + 1] = to_balancer[1]
        /\ \A i \in 1 .. Len(inbox) : inbox'[i] = inbox[i]
        /\ \A i \in 1 .. Len(inbox') : i \in 1 .. Len(inbox) \/ i = Len(inbox) + 1
      BY <1>4, <1>5, QueueAppend DEF ForwardingTypeOK
  <1>13. to_balancer' \in Seq(Response)
      BY <1>1, QueueTail DEF ForwardingTypeOK
  <1>14. Len(to_balancer') \in Nat /\ Len(to_balancer) = Len(to_balancer') + 1
      BY <1>5, <1>13
  <1>7. \A a \in Attempt : Requested(a)' <=> Requested(a)
      BY <1>1 DEF Requested
  <1>8. QuietBetweenUses'
      BY <1>3 DEF QuietBetweenUses, AwaitsAgent
  <1>9. OwnPipeline'
      BY <1>1, <1>2, <1>5, <1>6, <1>7 DEF PipelineInv, OwnPipeline
  <1>10. RequestIsFirst'
    <2>1. job[attempt] # "none"
        BY <1>1, <1>2 DEF PipelineInv, RequestIsFirst
    <2>2. ~Requested(attempt)' /\ SentOnce(attempt)'
        BY <1>1, <1>2, <2>1 DEF PipelineInv, RequestIsFirst, Requested, SentOnce
    <2> QED
        BY <1>1, <2>1, <2>2 DEF RequestIsFirst
  <1>11. DoneIsLast'
    <2>1. \A i \in 1 .. Len(inbox) : inbox[i].kind # "done"
        BY <1>1, <1>2 DEF PipelineInv, DoneIsLast
    <2>2. \A i \in 1 .. Len(to_balancer) : to_balancer[i].kind = "done" =>
              /\ i = Len(to_balancer) /\ responses = <<>>
              /\ job[attempt] \in {"terminated", "dropped"}
        BY <1>1, <1>2 DEF PipelineInv, DoneIsLast
    <2>3. ASSUME NEW i \in 1 .. Len(inbox'), inbox'[i].kind = "done"
          PROVE  /\ i = Len(inbox') /\ to_balancer' = <<>> /\ responses = <<>>
                 /\ job[attempt] \in {"terminated", "dropped"}
      <3>1. i = Len(inbox) + 1 /\ to_balancer[1].kind = "done"
          BY <1>6, <2>1, <2>3
      <3>2. 1 = Len(to_balancer) /\ responses = <<>> /\ job[attempt] \in {"terminated", "dropped"}
          BY <1>5, <2>2, <3>1
      <3>3. to_balancer' = <<>>
          BY <1>13, <1>14, <3>2
      <3> QED
          BY <1>6, <3>1, <3>2, <3>3
    <2>4. ASSUME NEW i \in 1 .. Len(to_balancer'), to_balancer'[i].kind = "done"
          PROVE  /\ i = Len(to_balancer') /\ responses = <<>>
                 /\ job[attempt] \in {"terminated", "dropped"}
      <3>1. i + 1 \in 1 .. Len(to_balancer) /\ to_balancer[i + 1].kind = "done"
          BY <1>5, <2>4
      <3> QED
          BY <1>5, <2>2, <3>1
    <2>5. \A i \in 1 .. Len(responses) : responses[i].kind = "done" =>
              i = Len(responses) /\ job[attempt] \in {"terminated", "dropped"}
        BY <1>1, <1>2 DEF PipelineInv, DoneIsLast
    <2> QED
        BY <1>1, <2>3, <2>4, <2>5 DEF DoneIsLast
  <1>12. Numbered'
    <2> SUFFICES ASSUME mode = "forwarding" PROVE Numbered'
        BY <1>1 DEF Numbered
    <2>1. received[attempt] \in Seq(Response \cup ErrorEnvelope)
        BY <1>3 DEF ForwardingTypeOK
    <2>2. Len(received[attempt]) \in Nat /\ Len(responses) \in Nat /\ generated[attempt] \in Nat
        BY <1>3, <2>1 DEF ForwardingTypeOK
    <2>3. /\ \A i \in 1 .. Len(inbox) : inbox[i].index = Len(received[attempt]) + i
          /\ \A i \in 1 .. Len(to_balancer) :
                 to_balancer[i].index = Len(received[attempt]) + Len(inbox) + i
          /\ \A i \in 1 .. Len(responses) :
                 responses[i].index
                     = Len(received[attempt]) + Len(inbox) + Len(to_balancer) + i
          /\ job[attempt] = "running" => generated[attempt] =
                 Len(received[attempt]) + Len(inbox) + Len(to_balancer) + Len(responses)
        BY <1>1 DEF PipelineInv, Numbered
    <2>4. inbox \in Seq(Response) /\ to_balancer \in Seq(Response)
        BY DEF ForwardingTypeOK
    <2>5. /\ \A i \in 1 .. Len(inbox') : inbox'[i].index = Len(received[attempt]) + i
          /\ \A i \in 1 .. Len(to_balancer') :
                 to_balancer'[i].index = Len(received[attempt]) + Len(inbox') + i
          /\ Len(inbox') + Len(to_balancer') = Len(inbox) + Len(to_balancer)
      <3>1. \A i \in 1 .. Len(inbox) : inbox[i].index = Len(received[attempt]) + i
          BY <2>3
      <3>2. \A i \in 1 .. Len(to_balancer) :
                 to_balancer[i].index = Len(received[attempt]) + Len(inbox) + i
          BY <2>3
      <3>3. Len(received[attempt]) \in Nat
          BY <2>2
      <3> QED
          BY <1>1, <1>4, <2>4, <3>1, <3>2, <3>3, MovedNumbers
    <2>6. Len(received[attempt]) + Len(inbox') + Len(to_balancer')
              = Len(received[attempt]) + Len(inbox) + Len(to_balancer)
      <3> DEFINE n == Len(received[attempt])
                 p == Len(inbox)
                 q == Len(to_balancer)
                 p1 == Len(inbox')
                 q1 == Len(to_balancer')
      <3>1. /\ n \in Nat /\ p \in Nat /\ q1 \in Nat
            /\ p1 = p + 1 /\ q = q1 + 1
          BY <1>5, <1>6, <1>14, <2>2
      <3> HIDE DEF n, p, q, p1, q1
      <3>2. n + p1 + q1 = n + p + q
          BY <3>1
      <3> QED
          BY <3>2 DEF n, p, q, p1, q1
    <2> QED
        BY <1>1, <2>3, <2>5, <2>6 DEF Numbered
  <1> QED
      BY <1>8, <1>9, <1>10, <1>11, <1>12 DEF PipelineInv

\* A response moves from the agent's channel to its socket.
LEMMA PipelineToBalancer ==
    ASSUME ForwardingTypeOK, PipelineInv, ForwardToBalancer
    PROVE  PipelineInv'
  <1>1. /\ responses # <<>> /\ responses' = Tail(responses)
        /\ to_balancer' = Append(to_balancer, Head(responses))
        /\ UNCHANGED <<attempt, mode, received, to_agent, inbox, job, generated>>
        /\ Clean' => Clean
      BY DEF ForwardToBalancer, balancerVars, environmentVars, Clean
  <1> SUFFICES ASSUME Clean' PROVE PipelineInv'
      BY DEF PipelineInv, QuietBetweenUses, OwnPipeline, RequestIsFirst, DoneIsLast, Numbered
  <1>2. AwaitsAgent
      BY <1>1 DEF PipelineInv, QuietBetweenUses
  <1>3. AwaitsAgent' /\ mode # "idle" /\ attempt \in Attempt
      BY <1>1, <1>2, CurrentUse DEF AwaitsAgent
  <1>5. /\ Head(responses) \in Response /\ Head(responses) = responses[1]
        /\ 1 \in 1 .. Len(responses)
        /\ Len(responses') = Len(responses) - 1 /\ Len(responses) \in Nat \ {0}
        /\ \A i \in 1 .. Len(responses') :
               responses'[i] = responses[i + 1] /\ i + 1 \in 1 .. Len(responses)
      BY <1>1, QueueTail DEF ForwardingTypeOK
  <1>6. /\ Len(to_balancer') = Len(to_balancer) + 1 /\ Len(to_balancer) \in Nat
        /\ to_balancer'[Len(to_balancer) + 1] = responses[1]
        /\ \A i \in 1 .. Len(to_balancer) : to_balancer'[i] = to_balancer[i]
        /\ \A i \in 1 .. Len(to_balancer') :
               i \in 1 .. Len(to_balancer) \/ i = Len(to_balancer) + 1
      BY <1>1, <1>5, QueueAppend DEF ForwardingTypeOK
  <1>13. responses' \in Seq(Response)
      BY <1>1, QueueTail DEF ForwardingTypeOK
  <1>14. Len(responses') \in Nat /\ Len(responses) = Len(responses') + 1
      BY <1>5, <1>13
  <1>7. \A a \in Attempt : Requested(a)' <=> Requested(a)
      BY <1>1 DEF Requested
  <1>8. QuietBetweenUses'
      BY <1>3 DEF QuietBetweenUses, AwaitsAgent
  <1>9. OwnPipeline'
      BY <1>1, <1>2, <1>5, <1>6, <1>7 DEF PipelineInv, OwnPipeline
  <1>10. RequestIsFirst'
    <2>1. job[attempt] # "none"
        BY <1>1, <1>2 DEF PipelineInv, RequestIsFirst
    <2>2. ~Requested(attempt)' /\ SentOnce(attempt)'
        BY <1>1, <1>2, <2>1 DEF PipelineInv, RequestIsFirst, Requested, SentOnce
    <2> QED
        BY <1>1, <2>1, <2>2 DEF RequestIsFirst
  <1>11. DoneIsLast'
    <2>1. /\ \A i \in 1 .. Len(inbox) : inbox[i].kind # "done"
          /\ \A i \in 1 .. Len(to_balancer) : to_balancer[i].kind # "done"
        BY <1>1, <1>2 DEF PipelineInv, DoneIsLast
    <2>2. \A i \in 1 .. Len(responses) : responses[i].kind = "done" =>
              i = Len(responses) /\ job[attempt] \in {"terminated", "dropped"}
        BY <1>1, <1>2 DEF PipelineInv, DoneIsLast
    <2>3. ASSUME NEW i \in 1 .. Len(to_balancer'), to_balancer'[i].kind = "done"
          PROVE  /\ i = Len(to_balancer') /\ responses' = <<>>
                 /\ job[attempt] \in {"terminated", "dropped"}
      <3>1. i = Len(to_balancer) + 1 /\ responses[1].kind = "done"
          BY <1>6, <2>1, <2>3
      <3>2. 1 = Len(responses) /\ job[attempt] \in {"terminated", "dropped"}
          BY <1>5, <2>2, <3>1
      <3>3. responses' = <<>>
          BY <1>13, <1>14, <3>2
      <3> QED
          BY <1>6, <3>1, <3>2, <3>3
    <2>4. ASSUME NEW i \in 1 .. Len(responses'), responses'[i].kind = "done"
          PROVE  i = Len(responses') /\ job[attempt] \in {"terminated", "dropped"}
      <3>1. i + 1 \in 1 .. Len(responses) /\ responses[i + 1].kind = "done"
          BY <1>5, <2>4
      <3> QED
          BY <1>5, <2>2, <3>1
    <2> QED
        BY <1>1, <2>1, <2>3, <2>4 DEF DoneIsLast
  <1>12. Numbered'
    <2> SUFFICES ASSUME mode = "forwarding" PROVE Numbered'
        BY <1>1 DEF Numbered
    <2>1. received[attempt] \in Seq(Response \cup ErrorEnvelope)
        BY <1>3 DEF ForwardingTypeOK
    <2>2. Len(received[attempt]) \in Nat /\ Len(inbox) \in Nat /\ generated[attempt] \in Nat
        BY <1>3, <2>1 DEF ForwardingTypeOK
    <2>3. /\ \A i \in 1 .. Len(inbox) : inbox[i].index = Len(received[attempt]) + i
          /\ \A i \in 1 .. Len(to_balancer) :
                 to_balancer[i].index = Len(received[attempt]) + Len(inbox) + i
          /\ \A i \in 1 .. Len(responses) :
                 responses[i].index
                     = Len(received[attempt]) + Len(inbox) + Len(to_balancer) + i
          /\ job[attempt] = "running" => generated[attempt] =
                 Len(received[attempt]) + Len(inbox) + Len(to_balancer) + Len(responses)
        BY <1>1 DEF PipelineInv, Numbered
    <2>4. to_balancer \in Seq(Response) /\ responses \in Seq(Response)
        BY DEF ForwardingTypeOK
    <2>5. Len(received[attempt]) + Len(inbox) \in Nat
        BY <2>2
    <2>6. /\ \A i \in 1 .. Len(to_balancer') :
                 to_balancer'[i].index = Len(received[attempt]) + Len(inbox) + i
          /\ \A i \in 1 .. Len(responses') : responses'[i].index
                 = Len(received[attempt]) + Len(inbox) + Len(to_balancer') + i
          /\ Len(to_balancer') + Len(responses') = Len(to_balancer) + Len(responses)
        BY <1>1, <2>3, <2>4, <2>5, MovedNumbers
    <2>7. Len(received[attempt]) + Len(inbox) + Len(to_balancer') + Len(responses')
              = Len(received[attempt]) + Len(inbox) + Len(to_balancer) + Len(responses)
      <3> DEFINE n == Len(received[attempt]) + Len(inbox)
                 p == Len(to_balancer)
                 q == Len(responses)
                 p1 == Len(to_balancer')
                 q1 == Len(responses')
      <3>1. /\ n \in Nat /\ p \in Nat /\ q1 \in Nat
            /\ p1 = p + 1 /\ q = q1 + 1
          BY <1>5, <1>6, <1>14, <2>5
      <3> HIDE DEF n, p, q, p1, q1
      <3>2. n + p1 + q1 = n + p + q
          BY <3>1
      <3> QED
          BY <3>2 DEF n, p, q, p1, q1
    <2> QED
        BY <1>1, <2>3, <2>6, <2>7 DEF Numbered
  <1> QED
      BY <1>8, <1>9, <1>10, <1>11, <1>12 DEF PipelineInv

\* The agent takes the request: everything is still empty.
LEMMA PipelineStarts ==
    ASSUME ForwardingTypeOK, AgentInv, PipelineInv, GenerateResponses
    PROVE  PipelineInv'
  <1>1. /\ to_agent # <<>> /\ to_agent' = Tail(to_agent)
        /\ UNCHANGED <<attempt, mode, received, inbox, to_balancer, generated>>
        /\ Clean' => Clean
        /\ \/ /\ job' = [job EXCEPT ![Head(to_agent).attempt] = "running"]
              /\ responses' = <<>>
           \/ UNCHANGED <<job, responses>>
      BY DEF GenerateResponses, balancerVars, environmentVars, Clean
  <1> SUFFICES ASSUME Clean' PROVE PipelineInv'
      BY DEF PipelineInv, QuietBetweenUses, OwnPipeline, RequestIsFirst, DoneIsLast, Numbered
  <1>2. /\ Head(to_agent).attempt \in Attempt /\ Requested(Head(to_agent).attempt)
        /\ to_agent[1] = RequestMessage(Head(to_agent).attempt) /\ 1 \in 1 .. Len(to_agent)
      BY TakenRequest DEF GenerateResponses
  <1>3. AwaitsAgent
      BY <1>1, <1>2 DEF PipelineInv, QuietBetweenUses
  <1>4. AwaitsAgent' /\ mode # "idle" /\ attempt \in Attempt
      BY <1>1, <1>3, CurrentUse DEF AwaitsAgent
  <1>5. Head(to_agent).attempt = attempt
      BY <1>1, <1>2, <1>3 DEF PipelineInv, OwnPipeline
  <1>6. /\ job[attempt] = "none" /\ SentOnce(attempt)
        /\ inbox = <<>> /\ to_balancer = <<>> /\ responses = <<>>
        /\ mode = "forwarding" => received[attempt] = <<>>
      BY <1>1, <1>2, <1>3, <1>5 DEF PipelineInv, RequestIsFirst
  <1>7. generated[attempt] = 0
      BY <1>4, <1>6 DEF AgentInv, NotAtAgent
  <1>8. \A a \in Attempt : Requested(a)' => Requested(a)
      BY <1>1, TakenKeepsRequests
  <1>9. ~Requested(attempt)'
    <2> SUFFICES ASSUME NEW i \in 1 .. Len(to_agent'), to_agent'[i] = RequestMessage(attempt)
                 PROVE  FALSE
        BY <1>1 DEF Requested
    <2>1. i + 1 \in 1 .. Len(to_agent) /\ to_agent[i + 1] = RequestMessage(attempt)
        BY <1>1, <1>4, TakenKeepsRequests
    <2>2. i + 1 = 1
        BY <1>2, <1>5, <1>6, <2>1 DEF SentOnce
    <2> QED
        BY <2>2
  <1>10. /\ responses' = <<>> /\ \A a \in Attempt : job'[a] = "running" => a = attempt
    <2>1. \A a \in Attempt : job[a] = "running" => a = attempt
        BY <1>1, <1>3 DEF PipelineInv, OwnPipeline
    <2> QED
        BY <1>1, <1>5, <1>6, <2>1 DEF ForwardingTypeOK
  <1>11. QuietBetweenUses'
      BY <1>1, <1>4, <1>6 DEF QuietBetweenUses
  <1>12. OwnPipeline'
    <2>1. \A a \in Attempt : Requested(a)' => a = attempt
        BY <1>1, <1>3, <1>8 DEF PipelineInv, OwnPipeline
    <2> QED
        BY <1>1, <1>6, <1>10, <2>1 DEF OwnPipeline
  <1>13. RequestIsFirst'
    <2>1. SentOnce(attempt)'
        BY <1>1, <1>9 DEF SentOnce, Requested
    <2> QED
        BY <1>1, <1>6, <1>9, <1>10, <2>1 DEF RequestIsFirst
  <1>14. DoneIsLast'
      BY <1>1, <1>6, <1>10 DEF DoneIsLast
  <1>15. Numbered'
      BY <1>1, <1>4, <1>6, <1>7, <1>10 DEF Numbered
  <1> QED
      BY <1>11, <1>12, <1>13, <1>14, <1>15 DEF PipelineInv

\* The agent's job produces a response, which its forwarding task will find.
LEMMA PipelineGenerates ==
    ASSUME ForwardingTypeOK, AgentInv, PipelineInv,
           NEW a \in Attempt, GenerateToken(a) \/ Terminate(a)
    PROVE  PipelineInv'
  <1>1. /\ job[a] = "running"
        /\ UNCHANGED <<attempt, mode, received, inbox, to_balancer, to_agent>>
        /\ Clean' => Clean
        /\ \A b \in Attempt : b # a => job'[b] = job[b] /\ generated'[b] = generated[b]
      BY DEF GenerateToken, Terminate, balancerVars, environmentVars, Clean, ForwardingTypeOK
  <1> SUFFICES ASSUME Clean' PROVE PipelineInv'
      BY DEF PipelineInv, QuietBetweenUses, OwnPipeline, RequestIsFirst, DoneIsLast, Numbered
  <1>2. AwaitsAgent
      BY <1>1 DEF PipelineInv, QuietBetweenUses
  <1>3. AwaitsAgent' /\ a = attempt
      BY <1>1, <1>2 DEF PipelineInv, OwnPipeline, AwaitsAgent
  <1>4. stopper = a
      BY <1>1 DEF AgentInv, StopperShape, Clean
  <1>5. PICK kind \in {"token", "done"} :
            /\ responses' = Append(responses,
                                   [kind |-> kind, job |-> a, index |-> generated[a] + 1])
            /\ kind = "token" => job' = job /\ generated'[a] = generated[a] + 1
            /\ kind = "done" => job'[a] = "terminated"
      BY <1>4 DEF GenerateToken, Terminate, Emit, ForwardingTypeOK
  <1> DEFINE e == [kind |-> kind, job |-> a, index |-> generated[a] + 1]
  <1>6. e \in Response /\ e.kind = kind /\ e.job = a /\ e.index = generated[a] + 1
    <2>1. generated[a] + 1 \in Nat
        BY DEF ForwardingTypeOK
    <2> QED
        BY <2>1 DEF Response
  <1> HIDE DEF e
  <1>7. /\ Len(responses') = Len(responses) + 1 /\ Len(responses) \in Nat
        /\ responses'[Len(responses) + 1] = e
        /\ \A i \in 1 .. Len(responses) : responses'[i] = responses[i]
        /\ \A i \in 1 .. Len(responses') : i \in 1 .. Len(responses) \/ i = Len(responses) + 1
    <2>1. responses' = Append(responses, e) /\ responses \in Seq(Response)
        BY <1>5 DEF ForwardingTypeOK, e
    <2> QED
        BY <1>6, <2>1, QueueAppend
  <1>8. \A b \in Attempt : Requested(b)' <=> Requested(b)
      BY <1>1 DEF Requested
  <1>9. /\ \A i \in 1 .. Len(inbox) : inbox[i].kind # "done"
        /\ \A i \in 1 .. Len(to_balancer) : to_balancer[i].kind # "done"
        /\ \A i \in 1 .. Len(responses) : responses[i].kind # "done"
      BY <1>1, <1>2, <1>3 DEF PipelineInv, DoneIsLast
  <1>10. QuietBetweenUses'
      BY <1>3 DEF QuietBetweenUses, AwaitsAgent
  <1>11. OwnPipeline'
    <2>1. \A i \in 1 .. Len(responses') : responses'[i].job = attempt
        BY <1>1, <1>2, <1>3, <1>6, <1>7 DEF PipelineInv, OwnPipeline
    <2>2. \A b \in Attempt : job'[b] = "running" \/ Requested(b)' => b = attempt
        BY <1>1, <1>2, <1>3, <1>8 DEF PipelineInv, OwnPipeline
    <2> QED
        BY <1>1, <1>2, <2>1, <2>2 DEF PipelineInv, OwnPipeline
  <1>12. RequestIsFirst'
    <2>1. ~Requested(attempt)
        BY <1>1, <1>2, <1>3 DEF PipelineInv, RequestIsFirst
    <2>2. ~Requested(attempt)' /\ SentOnce(attempt)' /\ job'[attempt] # "none"
        BY <1>1, <1>3, <1>5, <2>1 DEF Requested, SentOnce
    <2> QED
        BY <1>1, <2>2 DEF RequestIsFirst
  <1>13. DoneIsLast'
    <2>1. ASSUME NEW i \in 1 .. Len(responses'), responses'[i].kind = "done"
          PROVE  i = Len(responses') /\ job'[attempt] \in {"terminated", "dropped"}
      <3>1. i = Len(responses) + 1 /\ kind = "done"
          BY <1>6, <1>7, <1>9, <2>1
      <3> QED
          BY <1>3, <1>5, <1>7, <3>1
    <2> QED
        BY <1>1, <1>9, <2>1 DEF DoneIsLast
  <1>14. Numbered'
    <2> SUFFICES ASSUME mode = "forwarding" PROVE Numbered'
        BY <1>1 DEF Numbered
    <2> DEFINE t == Len(received[attempt]) + Len(inbox) + Len(to_balancer)
    <2>1. t \in Nat
      <3>1. received[attempt] \in Seq(Response \cup ErrorEnvelope)
          BY <1>3 DEF ForwardingTypeOK
      <3> QED
          BY <3>1 DEF ForwardingTypeOK
    <2>2. /\ \A i \in 1 .. Len(inbox) : inbox[i].index = Len(received[attempt]) + i
          /\ \A i \in 1 .. Len(to_balancer) :
                 to_balancer[i].index = Len(received[attempt]) + Len(inbox) + i
          /\ \A i \in 1 .. Len(responses) : responses[i].index = t + i
          /\ generated[attempt] = t + Len(responses)
        BY <1>1, <1>3 DEF PipelineInv, Numbered
    <2> HIDE DEF t
    <2>3. \A i \in 1 .. Len(responses') : responses'[i].index = t + i
      <3> SUFFICES ASSUME NEW i \in 1 .. Len(responses')
                   PROVE  responses'[i].index = t + i
          OBVIOUS
      <3>1. CASE i \in 1 .. Len(responses)
          BY <1>7, <2>2, <3>1
      <3>2. CASE i = Len(responses) + 1
        <4>1. responses'[i].index = (t + Len(responses)) + 1
            BY <1>3, <1>6, <1>7, <2>2, <3>2
        <4> QED
            BY <1>7, <2>1, <3>2, <4>1
      <3> QED
          BY <1>7, <3>1, <3>2
    <2>4. job'[attempt] = "running" => generated'[attempt] = t + Len(responses')
        BY <1>3, <1>5, <1>7, <2>1, <2>2
    <2> QED
        BY <1>1, <2>2, <2>3, <2>4 DEF Numbered, t
  <1> QED
      BY <1>10, <1>11, <1>12, <1>13, <1>14 DEF PipelineInv

\* A job leaves the scheduler.
LEMMA PipelineDrops ==
    ASSUME ForwardingTypeOK, PipelineInv, NEW a \in Attempt, DropRequest(a)
    PROVE  PipelineInv'
  <1>1. /\ job[a] \in {"running", "terminated"} /\ job'[a] = "dropped"
        /\ UNCHANGED <<attempt, mode, received, inbox, to_balancer, responses, to_agent, generated>>
        /\ Clean' => Clean
        /\ \A b \in Attempt : b # a => job'[b] = job[b]
      BY DEF DropRequest, balancerVars, environmentVars, Clean, ForwardingTypeOK
  <1>2. \A b \in Attempt : Requested(b)' <=> Requested(b)
      BY <1>1 DEF Requested
  <1>3. QuietBetweenUses'
    <2>1. AwaitsAgent' <=> AwaitsAgent
        BY <1>1 DEF AwaitsAgent
    <2>2. \A b \in Attempt : job'[b] = "running" => job[b] = "running"
        BY <1>1
    <2> QED
        BY <1>1, <1>2, <2>1, <2>2 DEF PipelineInv, QuietBetweenUses
  <1>4. OwnPipeline'
      BY <1>1, <1>2 DEF PipelineInv, OwnPipeline, AwaitsAgent
  <1>5. AwaitsAgent => attempt \in Attempt
      BY CurrentUse DEF AwaitsAgent
  <1>6. RequestIsFirst'
    <2>1. SentOnce(attempt)' <=> SentOnce(attempt)
        BY <1>1 DEF SentOnce
    <2>2. Requested(attempt)' => Requested(attempt)
        BY <1>1 DEF Requested
    <2> QED
        BY <1>1, <1>5, <2>1, <2>2 DEF PipelineInv, RequestIsFirst, AwaitsAgent
  <1>7. DoneIsLast'
      BY <1>1, <1>5 DEF PipelineInv, DoneIsLast, AwaitsAgent
  <1>8. Numbered'
      BY <1>1, <1>5 DEF PipelineInv, Numbered, AwaitsAgent
  <1> QED
      BY <1>3, <1>4, <1>6, <1>7, <1>8 DEF PipelineInv

\* What was lost or given up stays so.
LEMMA NotCleanAgain ==
    ASSUME ForwardingTypeOK, [ForwardingNext]_forwardingVars
    PROVE  /\ Clean' => Clean
           /\ abandoned \subseteq abandoned'
           /\ link # "open" => link' # "open"
           /\ shutdown => shutdown'
  <1>1. CASE Environment
      BY <1>1 DEF Environment, NewRequest, CancelRequest, LeaveClient, CloseClient, Shutdown,
                  CloseAgent, balancerVars, Clean
  <1>2. CASE BalancerStep
      BY <1>2 DEF BalancerStep, FoundAgent, NoAgent, RegisterSender, SendRequest, SendRequestFails,
                  ShutdownCancelled, AgentConnectionClose, ConnectionClose, ItemTimeout,
                  DrainTimeout, ReceiveWhileForwarding, ReceiveWhileDraining, environmentVars, Clean
  <1>3. CASE ~Environment /\ ~BalancerStep
      BY <1>3 DEF ForwardingNext, ForwardResponse, GenerateResponses, StopStream,
                  GenerateToken, Terminate, DropRequest, ForwardToBalancer, EndForwarding,
                  balancerVars, environmentVars, forwardingVars, Clean
  <1> QED
      BY <1>1, <1>2, <1>3

\* Every step keeps the queues in order.
LEMMA PipelineStep ==
    ForwardingTypeOK /\ StreamInv /\ AgentInv /\ PipelineInv /\ [ForwardingNext]_forwardingVars
        => PipelineInv'
  <1> SUFFICES ASSUME ForwardingTypeOK, StreamInv, AgentInv, PipelineInv,
                      [ForwardingNext]_forwardingVars
               PROVE  PipelineInv'
      OBVIOUS
  <1>1. CASE ~Clean'
      BY <1>1 DEF PipelineInv, QuietBetweenUses, OwnPipeline, RequestIsFirst, DoneIsLast, Numbered
  <1>2. CASE NewRequest
      BY <1>2, PipelineBegins
  <1>3. CASE SendRequest
      BY <1>3, PipelineOpens
  <1>4. CASE ReceiveWhileForwarding \/ ReceiveWhileDraining
      BY <1>4, PipelineReceives
  <1>5. CASE ForwardResponse
      BY <1>5, PipelineForwards
  <1>6. CASE ForwardToBalancer
      BY <1>6, PipelineToBalancer
  <1>7. CASE GenerateResponses
      BY <1>7, PipelineStarts
  <1>8. ASSUME NEW a \in Attempt, GenerateToken(a) \/ Terminate(a) \/ DropRequest(a)
        PROVE  PipelineInv'
      BY <1>8, PipelineGenerates, PipelineDrops
  <1>9. CASE \/ CancelRequest \/ LeaveClient \/ CloseClient \/ FoundAgent \/ NoAgent
             \/ RegisterSender \/ ConnectionClose \/ ItemTimeout \/ StopStream
             \/ EndForwarding \/ UNCHANGED forwardingVars
    <2> SUFFICES ASSUME Clean' PROVE PipelineInv'
        BY <1>1
    <2>1. Clean
        BY NotCleanAgain
    <2>2. /\ UNCHANGED <<attempt, inbox, to_balancer, responses, job, generated>>
          /\ \/ StopRespondingTo
             \/ to_agent # <<>> /\ to_agent' = Tail(to_agent)
             \/ to_agent' = to_agent
          /\ AwaitsAgent' <=> AwaitsAgent
          /\ mode' = "forwarding" => mode = "forwarding" /\ received' = received
          /\ mode' \in {"waiting", "register", "send"} =>
                 mode \in {"waiting", "register", "send"}
      <3>1. CASE EndForwarding
          BY <2>1, <3>1 DEF EndForwarding, Clean, balancerVars, environmentVars, AwaitsAgent
      <3>2. CASE \/ CancelRequest \/ LeaveClient \/ CloseClient \/ UNCHANGED forwardingVars
                 \/ StopStream
          BY <3>2 DEF CancelRequest, LeaveClient, CloseClient, StopStream, forwardingVars,
                      balancerVars, atAgentVars, AwaitsAgent
      <3>3. CASE FoundAgent \/ NoAgent \/ RegisterSender
          BY <3>3 DEF FoundAgent, NoAgent, RegisterSender, atAgentVars, AwaitsAgent
      <3>4. CASE ConnectionClose \/ ItemTimeout
          BY <2>1, <3>4 DEF ConnectionClose, ItemTimeout, ModeAfterStop, Clean, atAgentVars,
                            AwaitsAgent
      <3> QED
          BY <1>9, <3>1, <3>2, <3>3, <3>4
    <2>3. CASE attempt \in Attempt
      <3>1. \A a \in Attempt : Requested(a)' => Requested(a)
          BY <2>2, StopKeepsRequests, TakenKeepsRequests DEF Requested
      <3>2. SentOnce(attempt) => SentOnce(attempt)'
        <4>1. \A a \in Attempt : SentOnce(a) => SentOnce(a)'
            BY <2>2, StaysUnique
        <4> QED
            BY <2>2, <2>3, <4>1 DEF SentOnce
      <3> QED
          BY <2>1, <2>2, <2>3, <3>1, <3>2, QueuesUntouched
    <2>4. CASE attempt \notin Attempt
      <3>1. mode = "idle"
          BY <2>4, CurrentUse
      <3>2. ~AwaitsAgent /\ ~AwaitsAgent' /\ mode' # "forwarding"
            /\ mode' \notin {"waiting", "register", "send"}
          BY <2>2, <3>1 DEF AwaitsAgent
      <3>3. \A a \in Attempt : Requested(a)' => Requested(a)
          BY <2>2, StopKeepsRequests, TakenKeepsRequests DEF Requested
      <3>4. QuietBetweenUses'
          BY <2>1, <2>2, <3>2, <3>3 DEF PipelineInv, QuietBetweenUses
      <3> QED
          BY <3>2, <3>4 DEF PipelineInv, OwnPipeline, RequestIsFirst, DoneIsLast, Numbered
    <2> QED
        BY <2>3, <2>4
  <1>10. CASE Shutdown \/ CloseAgent \/ SendRequestFails \/ ShutdownCancelled
              \/ AgentConnectionClose \/ DrainTimeout
    <2>1. ~Clean'
        BY <1>10 DEF Shutdown, CloseAgent, SendRequestFails, ShutdownCancelled,
                     AgentConnectionClose, DrainTimeout, Clean, environmentVars
    <2> QED
        BY <1>1, <2>1
  <1> QED
      BY <1>2, <1>3, <1>4, <1>5, <1>6, <1>7, <1>8, <1>9, <1>10
      DEF ForwardingNext, Environment, BalancerStep

-----------------------------------------------------------------------------
(***************************************************************************)
(* Own responses, and the slot.                                            *)
(***************************************************************************)
\* Every step keeps the responses of a use its own and in order.
LEMMA OwnStep ==
    ASSUME ForwardingTypeOK, StreamInv, PipelineInv, OwnResponsesInOrder,
           [ForwardingNext]_forwardingVars
    PROVE  OwnResponsesInOrder'
  <1>1. abandoned \subseteq abandoned'
      BY NotCleanAgain
  <1>2. ASSUME received' = received PROVE OwnResponsesInOrder'
      BY <1>1, <1>2 DEF OwnResponsesInOrder
  <1>3. ASSUME RespondWithError, mode # "idle" PROVE OwnResponsesInOrder'
    <2> DEFINE e == [kind |-> "error"]
    <2>1. e \in Response \cup ErrorEnvelope /\ e.kind = "error"
        BY ErrorType
    <2>2. /\ attempt \in Attempt
          /\ \A a \in Attempt : a # attempt => received'[a] = received[a]
          /\ client = "open" => received'[attempt] = Append(received[attempt], e)
          /\ client # "open" => received'[attempt] = received[attempt]
        BY <1>3, <2>1, Sent DEF RespondWithError
    <2> HIDE DEF e
    <2> SUFFICES ASSUME NEW a \in Attempt, NEW i \in 1 .. Len(received'[a]),
                        received'[a][i].kind # "error", ~ \E b \in abandoned : b < a
                 PROVE  received'[a][i].job = a /\ received'[a][i].index = i
        BY <1>1 DEF OwnResponsesInOrder
    <2>3. CASE received'[a] = received[a]
        BY <2>3 DEF OwnResponsesInOrder
    <2>4. CASE a = attempt /\ received'[a] = Append(received[a], e)
      <3>1. received[a] \in Seq(Response \cup ErrorEnvelope)
          BY DEF ForwardingTypeOK
      <3>2. i \in 1 .. Len(received[a]) /\ received'[a][i] = received[a][i]
          BY <2>1, <2>4, <3>1, QueueAppend
      <3> QED
          BY <3>2 DEF OwnResponsesInOrder
    <2> QED
        BY <2>2, <2>3, <2>4
  <1>4. CASE ReceiveWhileForwarding
    <2>1. /\ mode = "forwarding" /\ link = "open" /\ ~shutdown /\ inbox # <<>>
          /\ SendToClient(Head(inbox))
        BY <1>4 DEF ReceiveWhileForwarding
    <2>2. Head(inbox) \in Response /\ Head(inbox) = inbox[1] /\ 1 \in 1 .. Len(inbox)
        BY <2>1, QueueTail DEF ForwardingTypeOK
    <2>3. /\ attempt \in Attempt
          /\ \A a \in Attempt : a # attempt => received'[a] = received[a]
          /\ client = "open" => received'[attempt] = Append(received[attempt], Head(inbox))
          /\ client # "open" => received'[attempt] = received[attempt]
        BY <2>1, <2>2, Sent
    <2> SUFFICES ASSUME NEW a \in Attempt, NEW i \in 1 .. Len(received'[a]),
                        received'[a][i].kind # "error", ~ \E b \in abandoned : b < a
                 PROVE  received'[a][i].job = a /\ received'[a][i].index = i
        BY <1>1 DEF OwnResponsesInOrder
    <2>4. CASE received'[a] = received[a]
        BY <2>4 DEF OwnResponsesInOrder
    <2>5. CASE a = attempt /\ received'[a] = Append(received[a], Head(inbox))
      <3>1. received[a] \in Seq(Response \cup ErrorEnvelope)
          BY DEF ForwardingTypeOK
      <3>2. /\ Len(received[a]) \in Nat
            /\ received'[a][Len(received[a]) + 1] = inbox[1]
            /\ \A j \in 1 .. Len(received[a]) : received'[a][j] = received[a][j]
            /\ i \in 1 .. Len(received[a]) \/ i = Len(received[a]) + 1
          BY <2>2, <2>5, <3>1, QueueAppend
      <3>3. CASE i \in 1 .. Len(received[a])
          BY <3>2, <3>3 DEF OwnResponsesInOrder
      <3>4. CASE i = Len(received[a]) + 1
        <4>1. abandoned = {}
            BY <2>1, <2>5 DEF StreamInv, AbandonedIsOver, Over
        <4>2. inbox[1].job = attempt /\ inbox[1].index = Len(received[attempt]) + 1
            BY <2>1, <2>2, <4>1 DEF Clean, PipelineInv, OwnPipeline, Numbered, AwaitsAgent
        <4> QED
            BY <2>5, <3>2, <3>4, <4>2
      <3> QED
          BY <3>2, <3>3, <3>4
    <2> QED
        BY <2>3, <2>4, <2>5
  <1>5. CASE BalancerStep /\ ~ReceiveWhileForwarding
    <2>1. received' = received \/ (RespondWithError /\ mode # "idle")
        BY <1>5 DEF BalancerStep, FoundAgent, NoAgent, RegisterSender, SendRequest,
                    SendRequestFails, ShutdownCancelled, AgentConnectionClose, ConnectionClose,
                    ItemTimeout, DrainTimeout, ReceiveWhileDraining
    <2> QED
        BY <1>2, <1>3, <2>1
  <1>6. CASE ~BalancerStep
    <2>1. received' = received
        BY <1>6 DEF ForwardingNext, Environment, NewRequest, CancelRequest, LeaveClient,
                    CloseClient, Shutdown, CloseAgent, ForwardResponse, GenerateResponses,
                    StopStream, GenerateToken, Terminate, DropRequest, ForwardToBalancer,
                    EndForwarding, balancerVars, forwardingVars
    <2> QED
        BY <1>2, <2>1
  <1> QED
      BY <1>4, <1>5, <1>6

\* A use gets to the agent by its request only.
LEMMA AtAgentBefore ==
    ASSUME ForwardingTypeOK, [ForwardingNext]_forwardingVars, ~SendRequest, NEW a \in Attempt,
           AtAgent(a)'
    PROVE  AtAgent(a)
  <1>1. Requested(a)' => Requested(a)
      BY RequestsOnTheirWay
  <1>2. job'[a] = "running" => job[a] = "running" \/ Requested(a)
    <2>1. CASE Environment \/ BalancerStep \/ ForwardResponse \/ UNCHANGED forwardingVars
        BY <2>1, JobsElsewhere
    <2>2. CASE GenerateResponses
      <3>1. Head(to_agent).attempt \in Attempt /\ Requested(Head(to_agent).attempt)
          BY <2>2, TakenRequest DEF GenerateResponses
      <3> QED
          BY <2>2, <3>1 DEF GenerateResponses, ForwardingTypeOK
    <2>3. CASE StopStream \/ ForwardToBalancer \/ EndForwarding
        BY <2>3 DEF StopStream, ForwardToBalancer, EndForwarding
    <2>4. ASSUME NEW b \in Attempt, GenerateToken(b) \/ Terminate(b) \/ DropRequest(b),
                 job'[a] = "running"
          PROVE  job[a] = "running"
        BY <2>4 DEF GenerateToken, Terminate, DropRequest, ForwardingTypeOK
    <2> QED
        BY <2>1, <2>2, <2>3, <2>4 DEF ForwardingNext
  <1> QED
      BY <1>1, <1>2 DEF AtAgent, Requested

\* Every step keeps the slot of a use the agent works on.
LEMMA SlotStep ==
    ASSUME ForwardingTypeOK, StreamInv, AgentInv, PipelineInv, PipelineInv',
           SlotHeldWhileAgentWorks, [ForwardingNext]_forwardingVars
    PROVE  SlotHeldWhileAgentWorks'
  <1> SUFFICES ASSUME NEW a \in Attempt, Over(a)', AtAgent(a)'
               PROVE  (\E b \in abandoned' : b <= a) \/ link' # "open" \/ shutdown'
      BY DEF SlotHeldWhileAgentWorks
  <1>1. CASE Over(a) /\ ~SendRequest
    <2>1. AtAgent(a)
        BY <1>1, AtAgentBefore
    <2>2. (\E b \in abandoned : b <= a) \/ link # "open" \/ shutdown
        BY <1>1, <2>1 DEF SlotHeldWhileAgentWorks
    <2> QED
        BY <2>2, NotCleanAgain DEF ForwardingTypeOK
  <1>2. CASE SendRequest
    <2>1. attempt' = attempt /\ mode' = "forwarding" /\ mode = "send"
          /\ UNCHANGED <<job, abandoned, link, shutdown>>
        BY <1>2 DEF SendRequest, atAgentVars, environmentVars
    <2>2. a # attempt /\ Over(a)
        BY <2>1 DEF Over, ForwardingTypeOK
    <2>3. AtAgent(a)
      <3>1. Requested(a)' => Requested(a)
          BY <1>2, <2>2, SentRequest
      <3> QED
          BY <2>1, <3>1 DEF AtAgent, Requested
    <2> QED
        BY <2>1, <2>2, <2>3 DEF SlotHeldWhileAgentWorks
  <1>3. CASE ~Over(a) /\ ~SendRequest
    <2>1. CASE NewRequest
        BY <1>3, <2>1 DEF NewRequest, Over, ForwardingTypeOK, Attempt
    <2>2. CASE Environment /\ ~NewRequest
        BY <1>3, <2>2 DEF Environment, CancelRequest, LeaveClient, CloseClient, Shutdown,
                          CloseAgent, balancerVars, Over
    <2>3. CASE ~Environment /\ ~BalancerStep
        BY <1>3, <2>3 DEF ForwardingNext, ForwardResponse, GenerateResponses, StopStream,
                  GenerateToken, Terminate, DropRequest, ForwardToBalancer, EndForwarding,
                  balancerVars, forwardingVars, Over
    <2>4. CASE BalancerStep
      <3>1. attempt' = attempt
          BY <2>4 DEF BalancerStep, FoundAgent, NoAgent, RegisterSender, SendRequest,
                    SendRequestFails, ShutdownCancelled, AgentConnectionClose, ConnectionClose,
                    ItemTimeout, DrainTimeout, ReceiveWhileForwarding, ReceiveWhileDraining
      <3>2. a = attempt /\ mode' = "finished" /\ mode # "finished"
          BY <1>3, <3>1 DEF Over
      <3>3. CASE NoAgent \/ RegisterSender \/ SendRequestFails
        <4>1. NotSent(a) /\ AtAgent(a)
            BY <1>3, <3>2, <3>3, AtAgentBefore
            DEF NoAgent, RegisterSender, SendRequestFails, NotSent
        <4> QED
            BY <4>1 DEF AgentInv, NotAtAgent, AtAgent, Requested
      <3>4. CASE ShutdownCancelled \/ AgentConnectionClose
          BY <3>4 DEF ShutdownCancelled, AgentConnectionClose, environmentVars
      <3>5. CASE FoundAgent \/ ConnectionClose \/ ItemTimeout
          BY <3>2, <3>5 DEF FoundAgent, ConnectionClose, ItemTimeout, ModeAfterStop
      <3>6. CASE DrainTimeout
          BY <3>2, <3>6 DEF DrainTimeout, Attempt
      <3>7. CASE ReceiveWhileForwarding \/ ReceiveWhileDraining
        <4>1. CASE Clean'
          <5>1. job'[a] # "running" /\ ~Requested(a)'
              BY <3>2, <4>1 DEF PipelineInv, QuietBetweenUses, AwaitsAgent
          <5> QED
              BY <5>1 DEF AtAgent, Requested
        <4>2. CASE ~Clean'
          <5>1. CASE link' = "open" /\ ~shutdown'
            <6>1. PICK b \in abandoned' : TRUE
                BY <4>2, <5>1 DEF Clean
            <6>2. b \in abandoned
                BY <3>7, <6>1 DEF ReceiveWhileForwarding, ReceiveWhileDraining
            <6>4. Over(b)
                BY <6>2 DEF StreamInv, AbandonedIsOver
            <6>5. b \in Attempt
                BY <6>2 DEF ForwardingTypeOK
            <6>3. b <= a
                BY <3>2, <6>4, <6>5 DEF Over, Attempt
            <6> QED
                BY <6>1, <6>3
          <5> QED
              BY <5>1 DEF ForwardingTypeOK
        <4> QED
            BY <4>1, <4>2
      <3> QED
          BY <1>3, <2>4, <3>3, <3>4, <3>5, <3>6, <3>7 DEF BalancerStep
    <2> QED
        BY <2>1, <2>2, <2>3, <2>4
  <1> QED
      BY <1>1, <1>2, <1>3

-----------------------------------------------------------------------------
(***************************************************************************)
(* The invariant, and what it says.                                        *)
(***************************************************************************)
\* It holds before the first request.
LEMMA ForwardingStart == ForwardingInit => ForwardingInv
  <1> SUFFICES ASSUME ForwardingInit PROVE ForwardingInv
      OBVIOUS
  <1>1. ForwardingTypeOK
    <2>1. attempt \in 0 .. MaxAttempts /\ stopper \in 0 .. MaxAttempts
        BY ForwardingAssumption DEF ForwardingInit
    <2>2. mode \in Modes /\ (attempt = 0) = (mode = "idle")
        BY DEF ForwardingInit, Modes
    <2>3. cancelled \in BOOLEAN /\ client \in {"open", "gone"} /\ shutdown \in BOOLEAN
          /\ link \in {"open", "closing", "closed"}
        BY DEF ForwardingInit
    <2>4. inbox \in Seq(Response) /\ to_balancer \in Seq(Response) /\ responses \in Seq(Response)
        BY DEF ForwardingInit
    <2>5. to_agent \in Seq(ToAgent)
        BY DEF ForwardingInit
    <2>6. stopped \in SUBSET Attempt /\ withdrawn \in SUBSET Attempt /\ abandoned \in SUBSET Attempt
        BY DEF ForwardingInit
    <2>7. job \in [Attempt -> {"none", "running", "terminated", "dropped"}]
        BY DEF ForwardingInit
    <2>8. generated \in [Attempt -> 0 .. MaxTokens]
      <3>1. 0 \in 0 .. MaxTokens
          BY ForwardingAssumption
      <3> QED
          BY <3>1 DEF ForwardingInit
    <2>9. received \in [Attempt -> Seq(Response \cup ErrorEnvelope)]
      <3>1. <<>> \in Seq(Response \cup ErrorEnvelope)
          OBVIOUS
      <3> QED
          BY <3>1 DEF ForwardingInit
    <2> QED
        BY <2>1, <2>2, <2>3, <2>4, <2>5, <2>6, <2>7, <2>8, <2>9 DEF ForwardingTypeOK
  <1>2. \A a \in Attempt : received[a] = <<>> /\ a > attempt /\ ~Over(a)
      BY DEF ForwardingInit, Attempt, Over
  <1>3. StreamInv
    <2>1. NotBegun /\ WithdrawalIsKnown /\ AbandonedIsOver
        BY <1>2 DEF ForwardingInit, NotBegun, WithdrawalIsKnown, AbandonedIsOver
    <2>2. StreamShape
        BY <1>2 DEF ForwardingInit, StreamShape, Active
    <2> QED
        BY <2>1, <2>2 DEF StreamInv
  <1>4. \A a \in Attempt : ~Requested(a)
      BY DEF ForwardingInit, Requested
  <1>5. AgentInv
      BY <1>4 DEF ForwardingInit, AgentInv, NotAtAgent, StopperShape
  <1>6. PipelineInv
      BY <1>4 DEF ForwardingInit, PipelineInv, QuietBetweenUses, OwnPipeline, RequestIsFirst,
                  DoneIsLast, Numbered, AwaitsAgent
  <1>7. OwnResponsesInOrder /\ SlotHeldWhileAgentWorks
      BY <1>2 DEF OwnResponsesInOrder, SlotHeldWhileAgentWorks
  <1> QED
      BY <1>1, <1>3, <1>5, <1>6, <1>7 DEF ForwardingInv

\* Every step keeps it.
LEMMA ForwardingStep == ForwardingInv /\ [ForwardingNext]_forwardingVars => ForwardingInv'
  BY ForwardingTypeStep, StreamStep, AgentStep, PipelineStep, OwnStep, SlotStep
  DEF ForwardingInv

\* The invariant holds throughout every behaviour of a request id.
THEOREM ForwardingIsSound == ForwardingSpec => []ForwardingInv
  BY ForwardingStart, ForwardingStep, PTL DEF ForwardingSpec

\* Every use of a request id that the balancer has finished (each exit of
\* request_from_agent) was answered with a terminal message, or its client had
\* cancelled it or gone.
THEOREM FinishedRequestsAreAnswered == ForwardingSpec => []Answered
  <1>1. ForwardingInv => Answered
    <2> SUFFICES ASSUME ForwardingInv, NEW a \in Attempt, Over(a), a \notin withdrawn
                 PROVE  \E i \in 1 .. Len(received[a]) : Terminal(received[a][i])
        BY DEF Answered
    <2> QED
        BY DEF ForwardingInv, StreamInv, StreamShape, HasTerminal
  <1> QED
      BY <1>1, ForwardingIsSound, PTL

\* A client receives the responses generated for its own use of the id, all of
\* them from the first on and in order, while the balancer routes by id alone,
\* unless the drain of an earlier use was given up.
THEOREM ResponsesAreOwnAndInOrder == ForwardingSpec => []OwnResponsesInOrder
  <1>1. ForwardingInv => OwnResponsesInOrder
      BY DEF ForwardingInv
  <1> QED
      BY <1>1, ForwardingIsSound, PTL

\* forward_responses_stream gives the agent's slot up only when the agent works
\* on the request no longer, unless the connection was lost, the balancer shut
\* down, or a drain timed out.
THEOREM SlotIsHeld == ForwardingSpec => []SlotHeldWhileAgentWorks
  <1>1. ForwardingInv => SlotHeldWhileAgentWorks
      BY DEF ForwardingInv
  <1> QED
      BY <1>1, ForwardingIsSound, PTL

-----------------------------------------------------------------------------
(***************************************************************************)
(* Refinement: every step of the forwarding is a step of ResponseStream,   *)
(* or changes nothing a client can see.                                    *)
(***************************************************************************)
\* What the client sees of a use.
SeenUnchanged(a) ==
    StreamPhase(a)' = StreamPhase(a) /\ TokensReceived(a)' = TokensReceived(a)

\* The abstract steps, in terms of what the client sees.
LEMMA AbstractSteps ==
    ASSUME NEW a \in Attempt, \A b \in Attempt : b # a => SeenUnchanged(b)
    PROVE  /\ /\ StreamPhase(a) = "unsent" /\ StreamPhase(a)' = "open"
              /\ TokensReceived(a)' = TokensReceived(a) /\ withdrawn' = withdrawn
              => Stream!Open(a)
           /\ /\ StreamPhase(a) = "open" /\ StreamPhase(a)' = "open"
              /\ TokensReceived(a)' = TokensReceived(a) + 1 /\ withdrawn' = withdrawn
              => Stream!Token(a)
           /\ /\ StreamPhase(a) = "open" /\ StreamPhase(a)' = "answered"
              /\ TokensReceived(a)' = TokensReceived(a) /\ withdrawn' = withdrawn
              => Stream!Answer(a)
           /\ /\ StreamPhase(a) = "open" /\ StreamPhase(a)' = "withdrawn" /\ a \in withdrawn
              /\ TokensReceived(a)' = TokensReceived(a) /\ withdrawn' = withdrawn
              => Stream!Withhold(a)
           /\ SeenUnchanged(a) /\ withdrawn' = withdrawn \cup {a} => Stream!WithdrawRequest(a)
           /\ SeenUnchanged(a) /\ withdrawn' = withdrawn => UNCHANGED Stream!vars
  BY DEF SeenUnchanged, Stream!Open, Stream!Token, Stream!Answer, Stream!Withhold,
         Stream!WithdrawRequest, Stream!vars

\* A step of the balancer for the current use changes what is seen of no other.
LEMMA OthersUnseen ==
    ASSUME ForwardingTypeOK, attempt' = attempt, NEW b \in Attempt, b # attempt,
           received'[b] = received[b]
    PROVE  SeenUnchanged(b)
  BY DEF SeenUnchanged, StreamPhase, TokensReceived, Over, ForwardingTypeOK, Attempt

\* An open stream gets a terminal message, or the client is gone.
LEMMA StreamEnds ==
    ASSUME ForwardingTypeOK, StreamInv, Active, attempt' = attempt, withdrawn' = withdrawn,
           mode' \in {"draining", "finished"},
           NEW m \in Response \cup ErrorEnvelope, Terminal(m), SendToClient(m)
    PROVE  Stream!Next
  <1>1. /\ mode # "idle" /\ ~HasTerminal(attempt)
        /\ \A a \in Attempt : \A i \in 1 .. Len(received[a]) :
               Terminal(received[a][i]) => i = Len(received[a])
      BY DEF Active, StreamInv, StreamShape
  <1>2. /\ attempt \in Attempt
        /\ \A a \in Attempt : a # attempt => received'[a] = received[a]
        /\ client = "open" => received'[attempt] = Append(received[attempt], m)
        /\ client # "open" => received'[attempt] = received[attempt]
      BY <1>1, Sent
  <1>3. \A b \in Attempt : b # attempt => SeenUnchanged(b)
      BY <1>2, OthersUnseen
  <1>4. StreamPhase(attempt) = "open" /\ TokensReceived(attempt) = Len(received[attempt])
      BY <1>1 DEF StreamPhase, TokensReceived, HasTerminal, Active, Over, ForwardingTypeOK
  <1>5. CASE client = "open"
    <2>1. HasTerminal(attempt)'
        BY <1>1, <1>5, SentShape
    <2>2. Len(received'[attempt]) - 1 = Len(received[attempt])
      <3>1. received[attempt] \in Seq(Response \cup ErrorEnvelope)
          BY <1>2 DEF ForwardingTypeOK
      <3> QED
          BY <1>2, <1>5, <3>1, QueueAppend
    <2>3. StreamPhase(attempt)' = "answered" /\ TokensReceived(attempt)' = Len(received[attempt])
      <3>1. ~(attempt > attempt)
          BY DEF ForwardingTypeOK
      <3>2. StreamPhase(attempt)' = "answered"
          BY <2>1, <3>1 DEF StreamPhase, HasTerminal
      <3>3. TokensReceived(attempt)' = Len(received'[attempt]) - 1
          BY <2>1 DEF TokensReceived, HasTerminal
      <3> QED
          BY <2>2, <3>2, <3>3
    <2>4. Stream!Answer(attempt)
        BY <1>2, <1>3, <1>4, <2>3, AbstractSteps
    <2> QED
        BY <1>2, <2>4 DEF Stream!Next
  <1>6. CASE client # "open"
    <2>1. attempt \in withdrawn
        BY <1>6 DEF StreamInv, WithdrawalIsKnown, Active, ForwardingTypeOK
    <2>2. StreamPhase(attempt)' = "withdrawn" /\ TokensReceived(attempt)' = Len(received[attempt])
      <3>1. received'[attempt] = received[attempt] /\ ~(attempt > attempt)
          BY <1>2, <1>6 DEF ForwardingTypeOK
      <3>2. StreamPhase(attempt)' = "withdrawn"
          BY <1>1, <3>1 DEF StreamPhase, HasTerminal, Over
      <3>3. TokensReceived(attempt)' = Len(received[attempt])
          BY <1>1, <3>1 DEF TokensReceived, HasTerminal
      <3> QED
          BY <3>2, <3>3
    <2>3. Stream!Withhold(attempt)
        BY <1>2, <1>3, <1>4, <2>1, <2>2, AbstractSteps
    <2> QED
        BY <1>2, <2>3 DEF Stream!Next
  <1> QED
      BY <1>5, <1>6

\* An open stream is ended without a message, towards a client that withdrew.
LEMMA StreamWithheld ==
    ASSUME ForwardingTypeOK, StreamInv, Active, cancelled, mode' \in {"draining", "finished"},
           UNCHANGED <<attempt, received, withdrawn>>
    PROVE  Stream!Next
  <1>1. attempt \in Attempt /\ attempt \in withdrawn /\ ~HasTerminal(attempt)
      BY CurrentUse DEF Active, StreamInv, StreamShape, WithdrawalIsKnown
  <1>2. \A b \in Attempt : b # attempt => SeenUnchanged(b)
      BY OthersUnseen
  <1>3. StreamPhase(attempt) = "open" /\ TokensReceived(attempt) = Len(received[attempt])
      BY <1>1 DEF StreamPhase, TokensReceived, HasTerminal, Active, Over, ForwardingTypeOK
  <1>4. StreamPhase(attempt)' = "withdrawn" /\ TokensReceived(attempt)' = Len(received[attempt])
      BY <1>1 DEF StreamPhase, TokensReceived, HasTerminal, Over, ForwardingTypeOK
  <1>5. Stream!Withhold(attempt)
      BY <1>1, <1>2, <1>3, <1>4, AbstractSteps
  <1> QED
      BY <1>1, <1>5 DEF Stream!Next

\* The stream stays as it is.
LEMMA StreamStutters ==
    ASSUME ForwardingTypeOK, UNCHANGED <<attempt, received, withdrawn>>,
           mode' \in Modes, Active' <=> Active, mode' = "idle" <=> mode = "idle"
    PROVE  UNCHANGED Stream!vars
  <1>1. ASSUME NEW a \in Attempt PROVE SeenUnchanged(a)
    <2>1. TokensReceived(a)' = TokensReceived(a)
        BY DEF TokensReceived
    <2>2. CASE a # attempt
        BY <2>2, OthersUnseen
    <2>3. CASE a = attempt
      <3>1. (Over(a) \/ mode = "draining") <=> ~Active /\ mode # "idle"
          BY <2>3 DEF Over, Active, ForwardingTypeOK, Modes
      <3>2. (Over(a)' \/ mode' = "draining") <=> ~Active' /\ mode' # "idle"
          BY <2>3 DEF Over, Active, ForwardingTypeOK, Modes
      <3>3. (Over(a)' \/ mode' = "draining") <=> (Over(a) \/ mode = "draining")
          BY <3>1, <3>2
      <3>4. StreamPhase(a)' = StreamPhase(a)
          BY <3>3 DEF StreamPhase
      <3> QED
          BY <2>1, <3>4 DEF SeenUnchanged
    <2> QED
        BY <2>2, <2>3
  <1> QED
      BY <1>1 DEF SeenUnchanged, Stream!vars

\* A response that is forwarded.
LEMMA StreamContinues ==
    ASSUME ForwardingTypeOK, StreamInv, ReceiveWhileForwarding
    PROVE  Stream!Next
  <1>1. /\ mode = "forwarding" /\ Active /\ mode # "idle" /\ attempt' = attempt
        /\ withdrawn' = withdrawn /\ SendToClient(Head(inbox))
        /\ mode' \in {"forwarding", "draining", "finished"}
        /\ mode' = "forwarding" => Head(inbox).kind # "done" /\ client = "open"
        /\ mode' # "forwarding" => Head(inbox).kind = "done" \/ client = "gone"
      BY DEF ReceiveWhileForwarding, ModeAfterStop, Active, environmentVars
  <1>2. Head(inbox) \in Response /\ (Terminal(Head(inbox)) <=> Head(inbox).kind = "done")
    <2>1. Head(inbox) \in Response
        BY QueueTail DEF ReceiveWhileForwarding, ForwardingTypeOK
    <2> QED
        BY <2>1 DEF Terminal, Response
  <1>3. /\ ~HasTerminal(attempt)
        /\ \A a \in Attempt : \A i \in 1 .. Len(received[a]) :
               Terminal(received[a][i]) => i = Len(received[a])
      BY <1>1 DEF StreamInv, StreamShape
  <1>4. /\ attempt \in Attempt
        /\ \A a \in Attempt : a # attempt => received'[a] = received[a]
        /\ client = "open" => received'[attempt] = Append(received[attempt], Head(inbox))
        /\ client # "open" => received'[attempt] = received[attempt]
      BY <1>1, <1>2, Sent
  <1>5. \A b \in Attempt : b # attempt => SeenUnchanged(b)
      BY <1>1, <1>4, OthersUnseen
  <1>6. StreamPhase(attempt) = "open" /\ TokensReceived(attempt) = Len(received[attempt])
      BY <1>1, <1>3 DEF StreamPhase, TokensReceived, HasTerminal, Over, ForwardingTypeOK
  <1>7. CASE mode' = "forwarding"
    <2>1. ~HasTerminal(attempt)'
        BY <1>1, <1>2, <1>3, <1>7, SentShape
    <2>2. Len(received'[attempt]) = Len(received[attempt]) + 1
      <3>1. received[attempt] \in Seq(Response \cup ErrorEnvelope)
          BY <1>4 DEF ForwardingTypeOK
      <3> QED
          BY <1>1, <1>2, <1>4, <1>7, <3>1, QueueAppend
    <2>3. ~(attempt > attempt) /\ ~Over(attempt)'
        BY <1>1, <1>7 DEF ForwardingTypeOK, Over
    <2>4. StreamPhase(attempt)' = "open"
        BY <1>1, <1>7, <2>1, <2>3 DEF StreamPhase, HasTerminal
    <2>5. TokensReceived(attempt)' = Len(received[attempt]) + 1
        BY <1>1, <2>1, <2>2 DEF TokensReceived, HasTerminal
    <2>6. Stream!Token(attempt)
        BY <1>1, <1>4, <1>5, <1>6, <2>4, <2>5, AbstractSteps
    <2> QED
        BY <1>4, <2>6 DEF Stream!Next
  <1>8. CASE mode' # "forwarding" /\ Head(inbox).kind = "done"
      BY <1>1, <1>2, <1>8, StreamEnds
  <1>9. CASE mode' # "forwarding" /\ client = "gone"
    <2>1. attempt \in withdrawn
        BY <1>1, <1>9 DEF StreamInv, WithdrawalIsKnown
    <2>2. StreamPhase(attempt)' = "withdrawn" /\ TokensReceived(attempt)' = Len(received[attempt])
        BY <1>1, <1>3, <1>4, <1>9 DEF StreamPhase, TokensReceived, HasTerminal, Over,
                                      ForwardingTypeOK
    <2>3. Stream!Withhold(attempt)
        BY <1>1, <1>4, <1>5, <1>6, <2>1, <2>2, AbstractSteps
    <2> QED
        BY <1>4, <2>3 DEF Stream!Next
  <1> QED
      BY <1>1, <1>7, <1>8, <1>9

\* A new use is a stream that opens.
LEMMA StreamOpens ==
    ASSUME ForwardingTypeOK, StreamInv, NewRequest
    PROVE  Stream!Next
  <1>1. PICK n \in Attempt : n = attempt + 1
      BY ForwardingAssumption DEF NewRequest, ForwardingTypeOK, Attempt
  <1>2. /\ attempt' = n /\ attempt \in Nat /\ mode' = "waiting" /\ mode \in {"idle", "finished"}
        /\ UNCHANGED <<received, withdrawn>>
      BY <1>1 DEF NewRequest, ForwardingTypeOK
  <1>3. received[n] = <<>>
      BY <1>1, <1>2 DEF StreamInv, NotBegun
  <1>4. \A b \in Attempt : TokensReceived(b)' = TokensReceived(b)
      BY <1>2 DEF TokensReceived
  <1>5. StreamPhase(n) = "unsent" /\ StreamPhase(n)' = "open"
      BY <1>1, <1>2, <1>3 DEF StreamPhase, Over, Attempt
  <1>6. ASSUME NEW b \in Attempt, b # n PROVE StreamPhase(b)' = StreamPhase(b)
    <2>1. CASE b > n
        BY <1>1, <1>2, <2>1 DEF StreamPhase, Attempt
    <2>2. CASE b <= n
      <3>1. b < n /\ ~(b > attempt) /\ ~(b > n) /\ Over(b) /\ Over(b)'
          BY <1>1, <1>2, <1>6, <2>2 DEF Over, Attempt, ForwardingTypeOK
      <3> QED
          BY <1>2, <3>1 DEF StreamPhase
    <2> QED
        BY <2>1, <2>2, <1>2 DEF Attempt
  <1>7. Stream!Open(n)
      BY <1>2, <1>4, <1>5, <1>6, AbstractSteps DEF SeenUnchanged
  <1> QED
      BY <1>7 DEF Stream!Next

\* The client withdraws, or nothing is seen.
LEMMA StreamWithdrawn ==
    ASSUME ForwardingTypeOK, CancelRequest \/ LeaveClient
    PROVE  Stream!Next \/ UNCHANGED Stream!vars
  <1>1. /\ UNCHANGED <<attempt, mode, received>>
        /\ \/ withdrawn' = withdrawn
           \/ mode # "idle" /\ withdrawn' = withdrawn \cup {attempt}
      BY DEF CancelRequest, LeaveClient, balancerVars
  <1>2. \A a \in Attempt : SeenUnchanged(a)
      BY <1>1 DEF SeenUnchanged, StreamPhase, TokensReceived, Over
  <1>3. CASE withdrawn' = withdrawn
      BY <1>2, <1>3 DEF SeenUnchanged, Stream!vars
  <1>4. CASE mode # "idle" /\ withdrawn' = withdrawn \cup {attempt}
    <2>1. attempt \in Attempt
        BY <1>4, CurrentUse
    <2>2. Stream!WithdrawRequest(attempt)
        BY <1>2, <1>4, <2>1, AbstractSteps
    <2> QED
        BY <2>1, <2>2 DEF Stream!Next
  <1> QED
      BY <1>1, <1>3, <1>4

\* Every step of the forwarding is one of the stream, or none.
LEMMA StreamRefined ==
    ASSUME ForwardingTypeOK, StreamInv, [ForwardingNext]_forwardingVars
    PROVE  [Stream!Next]_(Stream!vars)
  <1>0. mode' \in Modes
      BY ForwardingTypeStep DEF ForwardingTypeOK
  <1>1. CASE NewRequest
      BY <1>1, StreamOpens
  <1>2. CASE CancelRequest \/ LeaveClient
      BY <1>2, StreamWithdrawn
  <1>3. CASE ReceiveWhileForwarding
      BY <1>3, StreamContinues
  <1>4. CASE \/ SendRequestFails
             \/ ItemTimeout
             \/ AgentConnectionClose /\ mode = "forwarding"
             \/ ShutdownCancelled /\ mode = "forwarding"
             \/ RegisterSender /\ mode' = "finished" /\ RespondWithError
             \/ NoAgent /\ ~(cancelled /\ ~shutdown)
    <2>1. /\ Active /\ RespondWithError /\ mode' \in {"draining", "finished"}
          /\ attempt' = attempt /\ withdrawn' = withdrawn
        BY <1>4 DEF SendRequestFails, AgentConnectionClose, ItemTimeout, ShutdownCancelled,
                    RegisterSender, NoAgent, Active, ModeAfterStop, environmentVars
    <2>2. [kind |-> "error"] \in Response \cup ErrorEnvelope /\ Terminal([kind |-> "error"])
        BY ErrorType DEF Terminal
    <2> QED
        BY <2>1, <2>2, StreamEnds DEF RespondWithError
  <1>5. CASE ConnectionClose \/ (NoAgent /\ cancelled /\ ~shutdown)
    <2>1. /\ Active /\ cancelled /\ mode' \in {"draining", "finished"}
          /\ UNCHANGED <<attempt, received, withdrawn>>
        BY <1>5 DEF ConnectionClose, NoAgent, Active, ModeAfterStop, environmentVars
    <2> QED
        BY <2>1, StreamWithheld
  <1>6. CASE \/ FoundAgent \/ SendRequest \/ DrainTimeout \/ ReceiveWhileDraining
             \/ RegisterSender /\ mode' = "send" /\ UNCHANGED received
             \/ AgentConnectionClose /\ mode = "draining"
             \/ ShutdownCancelled /\ mode = "draining"
    <2>1. /\ UNCHANGED <<attempt, received, withdrawn>>
          /\ Active' <=> Active
          /\ mode' # "idle" /\ mode # "idle"
        BY <1>6 DEF FoundAgent, SendRequest, DrainTimeout, ReceiveWhileDraining, RegisterSender,
                    AgentConnectionClose, ShutdownCancelled, environmentVars, Active
    <2> QED
        BY <2>1, <1>0, StreamStutters
  <1>7. CASE \/ CloseClient \/ Shutdown \/ CloseAgent \/ ForwardResponse \/ GenerateResponses
             \/ StopStream \/ ForwardToBalancer \/ EndForwarding \/ UNCHANGED forwardingVars
             \/ \E a \in Attempt : GenerateToken(a) \/ Terminate(a) \/ DropRequest(a)
    <2>1. UNCHANGED <<attempt, received, withdrawn, mode>>
        BY <1>7 DEF CloseClient, Shutdown, CloseAgent, ForwardResponse, GenerateResponses,
                    StopStream, GenerateToken, Terminate, DropRequest, ForwardToBalancer,
                    EndForwarding, balancerVars, environmentVars, forwardingVars
    <2>2. Active' <=> Active
        BY <2>1 DEF Active
    <2> QED
        BY <2>1, <2>2, <1>0, StreamStutters
  <1>8. CASE NoAgent
    <2>1. CASE cancelled /\ ~shutdown
        BY <1>5, <1>8, <2>1
    <2>2. CASE ~(cancelled /\ ~shutdown)
        BY <1>4, <1>8, <2>2
    <2> QED
        BY <2>1, <2>2
  <1>9. CASE RegisterSender
    <2>1. \/ RegisterSender /\ mode' = "finished" /\ RespondWithError
          \/ RegisterSender /\ mode' = "send" /\ UNCHANGED received
        BY <1>9 DEF RegisterSender
    <2> QED
        BY <1>4, <1>6, <2>1
  <1>10. CASE ShutdownCancelled \/ AgentConnectionClose
    <2>1. mode = "forwarding" \/ mode = "draining"
        BY <1>10 DEF ShutdownCancelled, AgentConnectionClose
    <2> QED
        BY <1>4, <1>6, <1>10, <2>1
  <1> QED
      BY <1>1, <1>2, <1>3, <1>4, <1>5, <1>6, <1>7, <1>8, <1>9, <1>10
      DEF ForwardingNext, Environment, BalancerStep

\* Forwarding implements ResponseStream: however often an id is used, and
\* whatever fails, a client sees tokens, then one terminal message and nothing
\* after it, and is refused the terminal message only when it withdrew.
THEOREM ForwardingImplementsStream == ForwardingSpec => Stream!Spec
  <1>1. ForwardingInit => Stream!Init
    <2> SUFFICES ASSUME ForwardingInit PROVE Stream!Init
        OBVIOUS
    <2>1. \A a \in Attempt : a > attempt /\ received[a] = <<>>
        BY DEF ForwardingInit, Attempt
    <2>2. \A a \in Attempt : StreamPhase(a) = "unsent" /\ TokensReceived(a) = 0
        BY <2>1 DEF StreamPhase, TokensReceived
    <2> QED
        BY <2>2 DEF ForwardingInit, Stream!Init
  <1>2. ForwardingInv /\ [ForwardingNext]_forwardingVars => [Stream!Next]_(Stream!vars)
      BY StreamRefined DEF ForwardingInv
  <1> QED
      BY <1>1, <1>2, ForwardingIsSound, PTL DEF ForwardingSpec, Stream!Spec

-----------------------------------------------------------------------------
(***************************************************************************)
(* The way of a request through the balancer.                              *)
(***************************************************************************)
\* Every variable of the dispatch and of the forwarding has its type, however the
\* requests, the agents' connections and the responses interleave
\* (wait_for_available_agent, request_from_agent).
THEOREM RequestsAreTyped == RequestsSpec => []RequestsTypeOK
<1>1. RequestsInit => TypeOK /\ ForwardingInv
  BY InitTypeOK, ForwardingStart DEF RequestsInit
<1>2. TypeOK /\ ForwardingInv /\ [RequestsNext]_<<part, vars, forwardingVars>>
         => TypeOK' /\ ForwardingInv'
  <2>1. [RequestsNext]_<<part, vars, forwardingVars>>
           => [Next]_vars /\ [ForwardingNext]_forwardingVars
    BY DEF RequestsNext
  <2>2. QED
    BY <2>1, NextTypeOK, ForwardingStep
<1>3. TypeOK /\ ForwardingInv => RequestsTypeOK
  BY DEF ForwardingInv, RequestsTypeOK
<1>4. QED
  BY <1>1, <1>2, <1>3, PTL DEF RequestsSpec

-----------------------------------------------------------------------------
(***************************************************************************)
(* That the end of a balancer or an agent leaves nothing behind and hides  *)
(* no failure, for any services and any number of connections.             *)
(*                                                                         *)
(* The invariant says what each stage of a life leaves standing: before    *)
(* the manager runs there is nothing (NothingBefore), while it runs only   *)
(* the configured services are there, and only a server that is up,        *)
(* stopping or aborted has connections (ServedByServers), and the result   *)
(* that is handed on is the one of the manager (ResultIsHandedOn).         *)
(***************************************************************************)
\* A bundle is made before the manager runs; a manager that runs has started every
\* configured service, and no other.
NothingBefore ==
    /\ configured \subseteq Services
    /\ bundle = "failed" <=> (bundle # "made" /\ manager # "none")
    /\ bundle # "made" => manager \in {"none", "error"}
    /\ \A s \in Services : service[s] = "absent" <=>
          (s \notin configured \/ manager = "none" \/ bundle # "made")

ServedByServers ==
    \A s \in Services : open[s] > 0 => s \in Http /\ service[s] \in {"up", "stopping", "aborted"}

\* The manager ends after its services, with their result.
ManagerIsLast ==
    bundle = "made" /\ Finished =>
        /\ \A s \in configured : service[s] \in EndedOrAborted
        /\ manager = "error" <=> \E s \in configured : service[s] \in Unclean

\* The thread ends after the manager, and its owner learns the manager's result.
ResultIsHandedOn ==
    /\ completion # "pending" => bundle = "made" /\ Finished
    /\ completion \in {"ok", "error"} => completion = manager
    /\ receiver = "told ok" => completion = "ok"
    /\ receiver = "told error" => completion = "error"
    /\ thread_owner = "gone" => completion # "pending"

LifecycleInv ==
    LifecycleTypeOK /\ NothingBefore /\ ServedByServers /\ ManagerIsLast /\ ResultIsHandedOn

\* What a service may be in.
States == {"absent", "starting", "up", "stopping"} \cup EndedOrAborted

\* The life of a program as the serving run exercises it.
LifecycleStep == [LifecycleNext]_lifecycleVars

\* A step keeps the types; a server never has more connections than its bound.
LEMMA TypeStep ==
    ASSUME LifecycleTypeOK, LifecycleStep PROVE LifecycleTypeOK'
<1> USE DEF LifecycleStep
<1>1. ASSUME NEW s \in Services, RunHttpService(s) PROVE LifecycleTypeOK'
  <2>1. cancelled_token' \in BOOLEAN
    BY <1>1, Zenon DEF LifecycleTypeOK, RunHttpService, Becomes, serviceVars, threadVars
  <2>2. service' \in [Services -> States]
    BY <1>1 DEF LifecycleTypeOK, States, Ended, EndedOrAborted, Unclean, RunHttpService, Becomes, serviceVars, threadVars
  <2>3. open' \in [Services -> 0 .. MaxConnections]
    BY <1>1 DEF LifecycleTypeOK, RunHttpService, Becomes, serviceVars, threadVars
  <2>4. /\ program' \in {"balancer", "agent"} /\ runs_in' \in {"command", "thread"}
        /\ configured' \subseteq Services /\ bundle' \in {"none", "made", "failed"}
        /\ manager' \in {"none", "running", "ok", "error"}
        /\ metrics' \in {"none", "sent", "failed"}
    BY <1>1 DEF LifecycleTypeOK, RunHttpService, Becomes, serviceVars, threadVars
  <2>5. /\ completion' \in {"pending", "ok", "error", "lost"}
        /\ receiver' \in {"kept", "awaited", "dropped", "told ok", "told error"}
        /\ thread_owner' \in {"holds", "drops", "gone"}
    BY <1>1 DEF LifecycleTypeOK, Finished, RunHttpService, Becomes, serviceVars, threadVars
  <2>6. QED
    BY <2>1, <2>2, <2>3, <2>4, <2>5 DEF LifecycleTypeOK, States
<1>2. ASSUME NEW s \in Services, RunLoop(s) PROVE LifecycleTypeOK'
  <2>1. cancelled_token' \in BOOLEAN
    BY <1>2, Zenon DEF LifecycleTypeOK, RunLoop, Becomes, serviceVars, threadVars
  <2>2. service' \in [Services -> States]
    BY <1>2 DEF LifecycleTypeOK, States, Ended, EndedOrAborted, Unclean, RunLoop, Becomes, serviceVars, threadVars
  <2>3. open' \in [Services -> 0 .. MaxConnections]
    BY <1>2 DEF LifecycleTypeOK, RunLoop, Becomes, serviceVars, threadVars
  <2>4. /\ program' \in {"balancer", "agent"} /\ runs_in' \in {"command", "thread"}
        /\ configured' \subseteq Services /\ bundle' \in {"none", "made", "failed"}
        /\ manager' \in {"none", "running", "ok", "error"}
        /\ metrics' \in {"none", "sent", "failed"}
    BY <1>2 DEF LifecycleTypeOK, RunLoop, Becomes, serviceVars, threadVars
  <2>5. /\ completion' \in {"pending", "ok", "error", "lost"}
        /\ receiver' \in {"kept", "awaited", "dropped", "told ok", "told error"}
        /\ thread_owner' \in {"holds", "drops", "gone"}
    BY <1>2 DEF LifecycleTypeOK, Finished, RunLoop, Becomes, serviceVars, threadVars
  <2>6. QED
    BY <2>1, <2>2, <2>3, <2>4, <2>5 DEF LifecycleTypeOK, States
<1>3. ASSUME NEW s \in Services, StopServer(s) PROVE LifecycleTypeOK'
  <2>1. cancelled_token' \in BOOLEAN
    BY <1>3, Zenon DEF LifecycleTypeOK, StopServer, Becomes, serviceVars, threadVars
  <2>2. service' \in [Services -> States]
    BY <1>3 DEF LifecycleTypeOK, States, Ended, EndedOrAborted, Unclean, StopServer, Becomes, serviceVars, threadVars
  <2>3. open' \in [Services -> 0 .. MaxConnections]
    BY <1>3 DEF LifecycleTypeOK, StopServer, Becomes, serviceVars, threadVars
  <2>4. /\ program' \in {"balancer", "agent"} /\ runs_in' \in {"command", "thread"}
        /\ configured' \subseteq Services /\ bundle' \in {"none", "made", "failed"}
        /\ manager' \in {"none", "running", "ok", "error"}
        /\ metrics' \in {"none", "sent", "failed"}
    BY <1>3 DEF LifecycleTypeOK, StopServer, Becomes, serviceVars, threadVars
  <2>5. /\ completion' \in {"pending", "ok", "error", "lost"}
        /\ receiver' \in {"kept", "awaited", "dropped", "told ok", "told error"}
        /\ thread_owner' \in {"holds", "drops", "gone"}
    BY <1>3 DEF LifecycleTypeOK, Finished, StopServer, Becomes, serviceVars, threadVars
  <2>6. QED
    BY <2>1, <2>2, <2>3, <2>4, <2>5 DEF LifecycleTypeOK, States
<1>4. ASSUME NEW s \in Services, ServerStops(s) PROVE LifecycleTypeOK'
  <2>1. cancelled_token' \in BOOLEAN
    BY <1>4, Zenon DEF LifecycleTypeOK, ServerStops, Becomes, serviceVars, threadVars
  <2>2. service' \in [Services -> States]
    BY <1>4 DEF LifecycleTypeOK, States, Ended, EndedOrAborted, Unclean, ServerStops, Becomes, serviceVars, threadVars
  <2>3. open' \in [Services -> 0 .. MaxConnections]
    BY <1>4 DEF LifecycleTypeOK, ServerStops, Becomes, serviceVars, threadVars
  <2>4. /\ program' \in {"balancer", "agent"} /\ runs_in' \in {"command", "thread"}
        /\ configured' \subseteq Services /\ bundle' \in {"none", "made", "failed"}
        /\ manager' \in {"none", "running", "ok", "error"}
        /\ metrics' \in {"none", "sent", "failed"}
    BY <1>4 DEF LifecycleTypeOK, ServerStops, Becomes, serviceVars, threadVars
  <2>5. /\ completion' \in {"pending", "ok", "error", "lost"}
        /\ receiver' \in {"kept", "awaited", "dropped", "told ok", "told error"}
        /\ thread_owner' \in {"holds", "drops", "gone"}
    BY <1>4 DEF LifecycleTypeOK, Finished, ServerStops, Becomes, serviceVars, threadVars
  <2>6. QED
    BY <2>1, <2>2, <2>3, <2>4, <2>5 DEF LifecycleTypeOK, States
<1>5. ASSUME NEW s \in Services, LoopEnds(s) PROVE LifecycleTypeOK'
  <2>1. cancelled_token' \in BOOLEAN
    BY <1>5, Zenon DEF LifecycleTypeOK, LoopEnds, Becomes, serviceVars, threadVars
  <2>2. service' \in [Services -> States]
    BY <1>5 DEF LifecycleTypeOK, States, Ended, EndedOrAborted, Unclean, LoopEnds, Becomes, serviceVars, threadVars
  <2>3. open' \in [Services -> 0 .. MaxConnections]
    BY <1>5 DEF LifecycleTypeOK, LoopEnds, Becomes, serviceVars, threadVars
  <2>4. /\ program' \in {"balancer", "agent"} /\ runs_in' \in {"command", "thread"}
        /\ configured' \subseteq Services /\ bundle' \in {"none", "made", "failed"}
        /\ manager' \in {"none", "running", "ok", "error"}
        /\ metrics' \in {"none", "sent", "failed"}
    BY <1>5 DEF LifecycleTypeOK, LoopEnds, Becomes, serviceVars, threadVars
  <2>5. /\ completion' \in {"pending", "ok", "error", "lost"}
        /\ receiver' \in {"kept", "awaited", "dropped", "told ok", "told error"}
        /\ thread_owner' \in {"holds", "drops", "gone"}
    BY <1>5 DEF LifecycleTypeOK, Finished, LoopEnds, Becomes, serviceVars, threadVars
  <2>6. QED
    BY <2>1, <2>2, <2>3, <2>4, <2>5 DEF LifecycleTypeOK, States
<1>6. ASSUME NEW s \in Services, ServerEnds(s) PROVE LifecycleTypeOK'
  <2>1. cancelled_token' \in BOOLEAN
    BY <1>6, Zenon DEF LifecycleTypeOK, ServerEnds, Becomes, serviceVars, threadVars
  <2>2. service' \in [Services -> States]
    BY <1>6 DEF LifecycleTypeOK, States, Ended, EndedOrAborted, Unclean, ServerEnds, Becomes, serviceVars, threadVars
  <2>3. open' \in [Services -> 0 .. MaxConnections]
    <3>1. open \in [Services -> 0 .. MaxConnections] /\ MaxConnections \in Nat
      BY LifecycleAssumption DEF LifecycleTypeOK
    <3>2. open' = [open EXCEPT ![s] = 0]
      BY <1>6 DEF ServerEnds
    <3>3. 0 \in 0 .. MaxConnections
      BY <1>6, <3>1 DEF ServerEnds
    <3>4. QED
      BY <3>1, <3>2, <3>3
  <2>4. /\ program' \in {"balancer", "agent"} /\ runs_in' \in {"command", "thread"}
        /\ configured' \subseteq Services /\ bundle' \in {"none", "made", "failed"}
        /\ manager' \in {"none", "running", "ok", "error"}
        /\ metrics' \in {"none", "sent", "failed"}
    BY <1>6 DEF LifecycleTypeOK, ServerEnds, Becomes, serviceVars, threadVars
  <2>5. /\ completion' \in {"pending", "ok", "error", "lost"}
        /\ receiver' \in {"kept", "awaited", "dropped", "told ok", "told error"}
        /\ thread_owner' \in {"holds", "drops", "gone"}
    BY <1>6 DEF LifecycleTypeOK, Finished, ServerEnds, Becomes, serviceVars, threadVars
  <2>6. QED
    BY <2>1, <2>2, <2>3, <2>4, <2>5 DEF LifecycleTypeOK, States
<1>7. ASSUME NEW s \in Services, ReportMetrics(s) PROVE LifecycleTypeOK'
  <2>1. cancelled_token' \in BOOLEAN
    BY <1>7, Zenon DEF LifecycleTypeOK, ReportMetrics, serviceVars, threadVars
  <2>2. service' \in [Services -> States]
    BY <1>7 DEF LifecycleTypeOK, States, Ended, EndedOrAborted, Unclean, ReportMetrics, serviceVars, threadVars
  <2>3. open' \in [Services -> 0 .. MaxConnections]
    BY <1>7 DEF LifecycleTypeOK, ReportMetrics, serviceVars, threadVars
  <2>4. /\ program' \in {"balancer", "agent"} /\ runs_in' \in {"command", "thread"}
        /\ configured' \subseteq Services /\ bundle' \in {"none", "made", "failed"}
        /\ manager' \in {"none", "running", "ok", "error"}
        /\ metrics' \in {"none", "sent", "failed"}
    BY <1>7 DEF LifecycleTypeOK, ReportMetrics, serviceVars, threadVars
  <2>5. /\ completion' \in {"pending", "ok", "error", "lost"}
        /\ receiver' \in {"kept", "awaited", "dropped", "told ok", "told error"}
        /\ thread_owner' \in {"holds", "drops", "gone"}
    BY <1>7 DEF LifecycleTypeOK, Finished, ReportMetrics, serviceVars, threadVars
  <2>6. QED
    BY <2>1, <2>2, <2>3, <2>4, <2>5 DEF LifecycleTypeOK, States
<1>8. ASSUME NEW s \in Services, OpenConnection(s) PROVE LifecycleTypeOK'
  <2>1. cancelled_token' \in BOOLEAN
    BY <1>8, Zenon DEF LifecycleTypeOK, OpenConnection, serviceVars, threadVars
  <2>2. service' \in [Services -> States]
    BY <1>8 DEF LifecycleTypeOK, States, Ended, EndedOrAborted, Unclean, OpenConnection, serviceVars, threadVars
  <2>3. open' \in [Services -> 0 .. MaxConnections]
    <3>1. open \in [Services -> 0 .. MaxConnections] /\ MaxConnections \in Nat
      BY LifecycleAssumption DEF LifecycleTypeOK
    <3>2. open' = [open EXCEPT ![s] = open[s] + 1]
      BY <1>8 DEF OpenConnection
    <3>3. open[s] + 1 \in 0 .. MaxConnections
      BY <1>8, <3>1 DEF OpenConnection
    <3>4. QED
      BY <3>1, <3>2, <3>3
  <2>4. /\ program' \in {"balancer", "agent"} /\ runs_in' \in {"command", "thread"}
        /\ configured' \subseteq Services /\ bundle' \in {"none", "made", "failed"}
        /\ manager' \in {"none", "running", "ok", "error"}
        /\ metrics' \in {"none", "sent", "failed"}
    BY <1>8 DEF LifecycleTypeOK, OpenConnection, serviceVars, threadVars
  <2>5. /\ completion' \in {"pending", "ok", "error", "lost"}
        /\ receiver' \in {"kept", "awaited", "dropped", "told ok", "told error"}
        /\ thread_owner' \in {"holds", "drops", "gone"}
    BY <1>8 DEF LifecycleTypeOK, Finished, OpenConnection, serviceVars, threadVars
  <2>6. QED
    BY <2>1, <2>2, <2>3, <2>4, <2>5 DEF LifecycleTypeOK, States
<1>9. ASSUME NEW s \in Services, CloseConnection(s) PROVE LifecycleTypeOK'
  <2>1. cancelled_token' \in BOOLEAN
    BY <1>9, Zenon DEF LifecycleTypeOK, CloseConnection, serviceVars, threadVars
  <2>2. service' \in [Services -> States]
    BY <1>9 DEF LifecycleTypeOK, States, Ended, EndedOrAborted, Unclean, CloseConnection, serviceVars, threadVars
  <2>3. open' \in [Services -> 0 .. MaxConnections]
    <3>1. open \in [Services -> 0 .. MaxConnections] /\ MaxConnections \in Nat
      BY LifecycleAssumption DEF LifecycleTypeOK
    <3>2. open' = [open EXCEPT ![s] = open[s] - 1]
      BY <1>9 DEF CloseConnection
    <3>3. open[s] - 1 \in 0 .. MaxConnections
      BY <1>9, <3>1 DEF CloseConnection
    <3>4. QED
      BY <3>1, <3>2, <3>3
  <2>4. /\ program' \in {"balancer", "agent"} /\ runs_in' \in {"command", "thread"}
        /\ configured' \subseteq Services /\ bundle' \in {"none", "made", "failed"}
        /\ manager' \in {"none", "running", "ok", "error"}
        /\ metrics' \in {"none", "sent", "failed"}
    BY <1>9 DEF LifecycleTypeOK, CloseConnection, serviceVars, threadVars
  <2>5. /\ completion' \in {"pending", "ok", "error", "lost"}
        /\ receiver' \in {"kept", "awaited", "dropped", "told ok", "told error"}
        /\ thread_owner' \in {"holds", "drops", "gone"}
    BY <1>9 DEF LifecycleTypeOK, Finished, CloseConnection, serviceVars, threadVars
  <2>6. QED
    BY <2>1, <2>2, <2>3, <2>4, <2>5 DEF LifecycleTypeOK, States
<1>10. ASSUME NEW s \in Services, CloseConnectionOnShutdown(s) PROVE LifecycleTypeOK'
  <2>1. cancelled_token' \in BOOLEAN
    BY <1>10, Zenon DEF LifecycleTypeOK, CloseConnectionOnShutdown, serviceVars, threadVars
  <2>2. service' \in [Services -> States]
    BY <1>10 DEF LifecycleTypeOK, States, Ended, EndedOrAborted, Unclean, CloseConnectionOnShutdown, serviceVars, threadVars
  <2>3. open' \in [Services -> 0 .. MaxConnections]
    <3>1. open \in [Services -> 0 .. MaxConnections] /\ MaxConnections \in Nat
      BY LifecycleAssumption DEF LifecycleTypeOK
    <3>2. open' = [open EXCEPT ![s] = open[s] - 1]
      BY <1>10 DEF CloseConnectionOnShutdown
    <3>3. open[s] - 1 \in 0 .. MaxConnections
      BY <1>10, <3>1 DEF CloseConnectionOnShutdown
    <3>4. QED
      BY <3>1, <3>2, <3>3
  <2>4. /\ program' \in {"balancer", "agent"} /\ runs_in' \in {"command", "thread"}
        /\ configured' \subseteq Services /\ bundle' \in {"none", "made", "failed"}
        /\ manager' \in {"none", "running", "ok", "error"}
        /\ metrics' \in {"none", "sent", "failed"}
    BY <1>10 DEF LifecycleTypeOK, CloseConnectionOnShutdown, serviceVars, threadVars
  <2>5. /\ completion' \in {"pending", "ok", "error", "lost"}
        /\ receiver' \in {"kept", "awaited", "dropped", "told ok", "told error"}
        /\ thread_owner' \in {"holds", "drops", "gone"}
    BY <1>10 DEF LifecycleTypeOK, Finished, CloseConnectionOnShutdown, serviceVars, threadVars
  <2>6. QED
    BY <2>1, <2>2, <2>3, <2>4, <2>5 DEF LifecycleTypeOK, States
<1>10a. ASSUME NEW s \in Services, DrainTimesOut(s) PROVE LifecycleTypeOK'
  <2>1. cancelled_token' \in BOOLEAN
    BY <1>10a, Zenon DEF LifecycleTypeOK, DrainTimesOut, Becomes, serviceVars, threadVars
  <2>2. service' \in [Services -> States]
    BY <1>10a DEF LifecycleTypeOK, States, Ended, EndedOrAborted, Unclean, DrainTimesOut, Becomes, serviceVars, threadVars
  <2>3. open' \in [Services -> 0 .. MaxConnections]
    <3>1. open \in [Services -> 0 .. MaxConnections] /\ MaxConnections \in Nat
      BY LifecycleAssumption DEF LifecycleTypeOK
    <3>2. open' = [open EXCEPT ![s] = 0]
      BY <1>10a DEF DrainTimesOut
    <3>3. 0 \in 0 .. MaxConnections
      BY <1>10a, <3>1 DEF DrainTimesOut
    <3>4. QED
      BY <3>1, <3>2, <3>3
  <2>4. /\ program' \in {"balancer", "agent"} /\ runs_in' \in {"command", "thread"}
        /\ configured' \subseteq Services /\ bundle' \in {"none", "made", "failed"}
        /\ manager' \in {"none", "running", "ok", "error"}
        /\ metrics' \in {"none", "sent", "failed"}
    BY <1>10a DEF LifecycleTypeOK, DrainTimesOut, Becomes, serviceVars, threadVars
  <2>5. /\ completion' \in {"pending", "ok", "error", "lost"}
        /\ receiver' \in {"kept", "awaited", "dropped", "told ok", "told error"}
        /\ thread_owner' \in {"holds", "drops", "gone"}
    BY <1>10a DEF LifecycleTypeOK, Finished, DrainTimesOut, Becomes, serviceVars, threadVars
  <2>6. QED
    BY <2>1, <2>2, <2>3, <2>4, <2>5 DEF LifecycleTypeOK, States
<1>10b. ASSUME NEW s \in Services, AbortService(s) PROVE LifecycleTypeOK'
  <2>1. cancelled_token' \in BOOLEAN
    BY <1>10b, Zenon DEF LifecycleTypeOK, AbortService, Becomes, serviceVars, threadVars
  <2>2. service' \in [Services -> States]
    BY <1>10b DEF LifecycleTypeOK, States, Ended, EndedOrAborted, Unclean, AbortService, Becomes, serviceVars, threadVars
  <2>3. open' \in [Services -> 0 .. MaxConnections]
    BY <1>10b DEF LifecycleTypeOK, AbortService, Becomes, serviceVars, threadVars
  <2>4. /\ program' \in {"balancer", "agent"} /\ runs_in' \in {"command", "thread"}
        /\ configured' \subseteq Services /\ bundle' \in {"none", "made", "failed"}
        /\ manager' \in {"none", "running", "ok", "error"}
        /\ metrics' \in {"none", "sent", "failed"}
    BY <1>10b DEF LifecycleTypeOK, AbortService, Becomes, serviceVars, threadVars
  <2>5. /\ completion' \in {"pending", "ok", "error", "lost"}
        /\ receiver' \in {"kept", "awaited", "dropped", "told ok", "told error"}
        /\ thread_owner' \in {"holds", "drops", "gone"}
    BY <1>10b DEF LifecycleTypeOK, Finished, AbortService, Becomes, serviceVars, threadVars
  <2>6. QED
    BY <2>1, <2>2, <2>3, <2>4, <2>5 DEF LifecycleTypeOK, States
<1>11. CASE NewBundle
  <2>1. cancelled_token' \in BOOLEAN
    BY <1>11, Zenon DEF LifecycleTypeOK, NewBundle, threadVars
  <2>2. service' \in [Services -> States]
    BY <1>11 DEF LifecycleTypeOK, States, Ended, EndedOrAborted, Unclean, NewBundle, threadVars
  <2>3. open' \in [Services -> 0 .. MaxConnections]
    BY <1>11 DEF LifecycleTypeOK, NewBundle, threadVars
  <2>4. /\ program' \in {"balancer", "agent"} /\ runs_in' \in {"command", "thread"}
        /\ configured' \subseteq Services /\ bundle' \in {"none", "made", "failed"}
        /\ manager' \in {"none", "running", "ok", "error"}
        /\ metrics' \in {"none", "sent", "failed"}
    BY <1>11 DEF LifecycleTypeOK, NewBundle, threadVars
  <2>5. /\ completion' \in {"pending", "ok", "error", "lost"}
        /\ receiver' \in {"kept", "awaited", "dropped", "told ok", "told error"}
        /\ thread_owner' \in {"holds", "drops", "gone"}
    BY <1>11 DEF LifecycleTypeOK, Finished, NewBundle, threadVars
  <2>6. QED
    BY <2>1, <2>2, <2>3, <2>4, <2>5 DEF LifecycleTypeOK, States
<1>12. CASE StartServices
  <2>1. cancelled_token' \in BOOLEAN
    BY <1>12, Zenon DEF LifecycleTypeOK, StartServices, StartManager, threadVars
  <2>2. service' \in [Services -> States]
    BY <1>12 DEF LifecycleTypeOK, States, Ended, EndedOrAborted, Unclean, StartServices, StartManager, threadVars
  <2>3. open' \in [Services -> 0 .. MaxConnections]
    BY <1>12 DEF LifecycleTypeOK, StartServices, StartManager, threadVars
  <2>4. /\ program' \in {"balancer", "agent"} /\ runs_in' \in {"command", "thread"}
        /\ configured' \subseteq Services /\ bundle' \in {"none", "made", "failed"}
        /\ manager' \in {"none", "running", "ok", "error"}
        /\ metrics' \in {"none", "sent", "failed"}
    BY <1>12 DEF LifecycleTypeOK, StartServices, StartManager, threadVars
  <2>5. /\ completion' \in {"pending", "ok", "error", "lost"}
        /\ receiver' \in {"kept", "awaited", "dropped", "told ok", "told error"}
        /\ thread_owner' \in {"holds", "drops", "gone"}
    BY <1>12 DEF LifecycleTypeOK, Finished, StartServices, StartManager, threadVars
  <2>6. QED
    BY <2>1, <2>2, <2>3, <2>4, <2>5 DEF LifecycleTypeOK, States
<1>13. CASE StartRunner
  <2>1. cancelled_token' \in BOOLEAN
    BY <1>13, Zenon DEF LifecycleTypeOK, StartRunner, StartManager, threadVars
  <2>2. service' \in [Services -> States]
    BY <1>13 DEF LifecycleTypeOK, States, Ended, EndedOrAborted, Unclean, StartRunner, StartManager, threadVars
  <2>3. open' \in [Services -> 0 .. MaxConnections]
    BY <1>13 DEF LifecycleTypeOK, StartRunner, StartManager, threadVars
  <2>4. /\ program' \in {"balancer", "agent"} /\ runs_in' \in {"command", "thread"}
        /\ configured' \subseteq Services /\ bundle' \in {"none", "made", "failed"}
        /\ manager' \in {"none", "running", "ok", "error"}
        /\ metrics' \in {"none", "sent", "failed"}
    BY <1>13 DEF LifecycleTypeOK, StartRunner, StartManager, threadVars
  <2>5. /\ completion' \in {"pending", "ok", "error", "lost"}
        /\ receiver' \in {"kept", "awaited", "dropped", "told ok", "told error"}
        /\ thread_owner' \in {"holds", "drops", "gone"}
    BY <1>13 DEF LifecycleTypeOK, Finished, StartRunner, StartManager, threadVars
  <2>6. QED
    BY <2>1, <2>2, <2>3, <2>4, <2>5 DEF LifecycleTypeOK, States
<1>14. CASE ManagerCancels
  <2>1. cancelled_token' \in BOOLEAN
    BY <1>14, Zenon DEF LifecycleTypeOK, ManagerCancels, threadVars
  <2>2. service' \in [Services -> States]
    BY <1>14 DEF LifecycleTypeOK, States, Ended, EndedOrAborted, Unclean, ManagerCancels, threadVars
  <2>3. open' \in [Services -> 0 .. MaxConnections]
    BY <1>14 DEF LifecycleTypeOK, ManagerCancels, threadVars
  <2>4. /\ program' \in {"balancer", "agent"} /\ runs_in' \in {"command", "thread"}
        /\ configured' \subseteq Services /\ bundle' \in {"none", "made", "failed"}
        /\ manager' \in {"none", "running", "ok", "error"}
        /\ metrics' \in {"none", "sent", "failed"}
    BY <1>14 DEF LifecycleTypeOK, ManagerCancels, threadVars
  <2>5. /\ completion' \in {"pending", "ok", "error", "lost"}
        /\ receiver' \in {"kept", "awaited", "dropped", "told ok", "told error"}
        /\ thread_owner' \in {"holds", "drops", "gone"}
    BY <1>14 DEF LifecycleTypeOK, Finished, ManagerCancels, threadVars
  <2>6. QED
    BY <2>1, <2>2, <2>3, <2>4, <2>5 DEF LifecycleTypeOK, States
<1>15. CASE RunToCompletion
  <2>1. cancelled_token' \in BOOLEAN
    BY <1>15, Zenon DEF LifecycleTypeOK, RunToCompletion, threadVars
  <2>2. service' \in [Services -> States]
    BY <1>15 DEF LifecycleTypeOK, States, Ended, EndedOrAborted, Unclean, RunToCompletion, threadVars
  <2>3. open' \in [Services -> 0 .. MaxConnections]
    BY <1>15 DEF LifecycleTypeOK, RunToCompletion, threadVars
  <2>4. /\ program' \in {"balancer", "agent"} /\ runs_in' \in {"command", "thread"}
        /\ configured' \subseteq Services /\ bundle' \in {"none", "made", "failed"}
        /\ manager' \in {"none", "running", "ok", "error"}
        /\ metrics' \in {"none", "sent", "failed"}
    BY <1>15 DEF LifecycleTypeOK, RunToCompletion, threadVars
  <2>5. /\ completion' \in {"pending", "ok", "error", "lost"}
        /\ receiver' \in {"kept", "awaited", "dropped", "told ok", "told error"}
        /\ thread_owner' \in {"holds", "drops", "gone"}
    BY <1>15 DEF LifecycleTypeOK, Finished, RunToCompletion, threadVars
  <2>6. QED
    BY <2>1, <2>2, <2>3, <2>4, <2>5 DEF LifecycleTypeOK, States
<1>16. CASE SendCompletion
  <2>1. cancelled_token' \in BOOLEAN
    BY <1>16, Zenon DEF LifecycleTypeOK, SendCompletion, restVars
  <2>2. service' \in [Services -> States]
    BY <1>16 DEF LifecycleTypeOK, States, Ended, EndedOrAborted, Unclean, SendCompletion, restVars
  <2>3. open' \in [Services -> 0 .. MaxConnections]
    BY <1>16 DEF LifecycleTypeOK, SendCompletion, restVars
  <2>4. /\ program' \in {"balancer", "agent"} /\ runs_in' \in {"command", "thread"}
        /\ configured' \subseteq Services /\ bundle' \in {"none", "made", "failed"}
        /\ manager' \in {"none", "running", "ok", "error"}
        /\ metrics' \in {"none", "sent", "failed"}
    BY <1>16 DEF LifecycleTypeOK, SendCompletion, restVars
  <2>5. /\ completion' \in {"pending", "ok", "error", "lost"}
        /\ receiver' \in {"kept", "awaited", "dropped", "told ok", "told error"}
        /\ thread_owner' \in {"holds", "drops", "gone"}
    BY <1>16 DEF LifecycleTypeOK, Finished, SendCompletion, restVars
  <2>6. QED
    BY <2>1, <2>2, <2>3, <2>4, <2>5 DEF LifecycleTypeOK, States
<1>17. CASE TakeCompletion
  <2>1. cancelled_token' \in BOOLEAN
    BY <1>17, Zenon DEF LifecycleTypeOK, TakeCompletion, restVars
  <2>2. service' \in [Services -> States]
    BY <1>17 DEF LifecycleTypeOK, States, Ended, EndedOrAborted, Unclean, TakeCompletion, restVars
  <2>3. open' \in [Services -> 0 .. MaxConnections]
    BY <1>17 DEF LifecycleTypeOK, TakeCompletion, restVars
  <2>4. /\ program' \in {"balancer", "agent"} /\ runs_in' \in {"command", "thread"}
        /\ configured' \subseteq Services /\ bundle' \in {"none", "made", "failed"}
        /\ manager' \in {"none", "running", "ok", "error"}
        /\ metrics' \in {"none", "sent", "failed"}
    BY <1>17 DEF LifecycleTypeOK, TakeCompletion, restVars
  <2>5. /\ completion' \in {"pending", "ok", "error", "lost"}
        /\ receiver' \in {"kept", "awaited", "dropped", "told ok", "told error"}
        /\ thread_owner' \in {"holds", "drops", "gone"}
    BY <1>17 DEF LifecycleTypeOK, Finished, TakeCompletion, restVars
  <2>6. QED
    BY <2>1, <2>2, <2>3, <2>4, <2>5 DEF LifecycleTypeOK, States
<1>18. CASE JoinThread
  <2>1. cancelled_token' \in BOOLEAN
    BY <1>18, Zenon DEF LifecycleTypeOK, JoinThread, restVars
  <2>2. service' \in [Services -> States]
    BY <1>18 DEF LifecycleTypeOK, States, Ended, EndedOrAborted, Unclean, JoinThread, restVars
  <2>3. open' \in [Services -> 0 .. MaxConnections]
    BY <1>18 DEF LifecycleTypeOK, JoinThread, restVars
  <2>4. /\ program' \in {"balancer", "agent"} /\ runs_in' \in {"command", "thread"}
        /\ configured' \subseteq Services /\ bundle' \in {"none", "made", "failed"}
        /\ manager' \in {"none", "running", "ok", "error"}
        /\ metrics' \in {"none", "sent", "failed"}
    BY <1>18 DEF LifecycleTypeOK, JoinThread, restVars
  <2>5. /\ completion' \in {"pending", "ok", "error", "lost"}
        /\ receiver' \in {"kept", "awaited", "dropped", "told ok", "told error"}
        /\ thread_owner' \in {"holds", "drops", "gone"}
    BY <1>18 DEF LifecycleTypeOK, Finished, JoinThread, restVars
  <2>6. QED
    BY <2>1, <2>2, <2>3, <2>4, <2>5 DEF LifecycleTypeOK, States
<1>19. CASE Cancel
  <2>1. cancelled_token' \in BOOLEAN
    BY <1>19, Zenon DEF LifecycleTypeOK, Cancel, threadVars
  <2>2. service' \in [Services -> States]
    BY <1>19 DEF LifecycleTypeOK, States, Ended, EndedOrAborted, Unclean, Cancel, threadVars
  <2>3. open' \in [Services -> 0 .. MaxConnections]
    BY <1>19 DEF LifecycleTypeOK, Cancel, threadVars
  <2>4. /\ program' \in {"balancer", "agent"} /\ runs_in' \in {"command", "thread"}
        /\ configured' \subseteq Services /\ bundle' \in {"none", "made", "failed"}
        /\ manager' \in {"none", "running", "ok", "error"}
        /\ metrics' \in {"none", "sent", "failed"}
    BY <1>19 DEF LifecycleTypeOK, Cancel, threadVars
  <2>5. /\ completion' \in {"pending", "ok", "error", "lost"}
        /\ receiver' \in {"kept", "awaited", "dropped", "told ok", "told error"}
        /\ thread_owner' \in {"holds", "drops", "gone"}
    BY <1>19 DEF LifecycleTypeOK, Finished, Cancel, threadVars
  <2>6. QED
    BY <2>1, <2>2, <2>3, <2>4, <2>5 DEF LifecycleTypeOK, States
<1>20. CASE WaitForCompletion
  <2>1. cancelled_token' \in BOOLEAN
    BY <1>20, Zenon DEF LifecycleTypeOK, WaitForCompletion, restVars
  <2>2. service' \in [Services -> States]
    BY <1>20 DEF LifecycleTypeOK, States, Ended, EndedOrAborted, Unclean, WaitForCompletion, restVars
  <2>3. open' \in [Services -> 0 .. MaxConnections]
    BY <1>20 DEF LifecycleTypeOK, WaitForCompletion, restVars
  <2>4. /\ program' \in {"balancer", "agent"} /\ runs_in' \in {"command", "thread"}
        /\ configured' \subseteq Services /\ bundle' \in {"none", "made", "failed"}
        /\ manager' \in {"none", "running", "ok", "error"}
        /\ metrics' \in {"none", "sent", "failed"}
    BY <1>20 DEF LifecycleTypeOK, WaitForCompletion, restVars
  <2>5. /\ completion' \in {"pending", "ok", "error", "lost"}
        /\ receiver' \in {"kept", "awaited", "dropped", "told ok", "told error"}
        /\ thread_owner' \in {"holds", "drops", "gone"}
    BY <1>20 DEF LifecycleTypeOK, Finished, WaitForCompletion, restVars
  <2>6. QED
    BY <2>1, <2>2, <2>3, <2>4, <2>5 DEF LifecycleTypeOK, States
<1>21. CASE DropWait
  <2>1. cancelled_token' \in BOOLEAN
    BY <1>21, Zenon DEF LifecycleTypeOK, DropWait, restVars
  <2>2. service' \in [Services -> States]
    BY <1>21 DEF LifecycleTypeOK, States, Ended, EndedOrAborted, Unclean, DropWait, restVars
  <2>3. open' \in [Services -> 0 .. MaxConnections]
    BY <1>21 DEF LifecycleTypeOK, DropWait, restVars
  <2>4. /\ program' \in {"balancer", "agent"} /\ runs_in' \in {"command", "thread"}
        /\ configured' \subseteq Services /\ bundle' \in {"none", "made", "failed"}
        /\ manager' \in {"none", "running", "ok", "error"}
        /\ metrics' \in {"none", "sent", "failed"}
    BY <1>21 DEF LifecycleTypeOK, DropWait, restVars
  <2>5. /\ completion' \in {"pending", "ok", "error", "lost"}
        /\ receiver' \in {"kept", "awaited", "dropped", "told ok", "told error"}
        /\ thread_owner' \in {"holds", "drops", "gone"}
    BY <1>21 DEF LifecycleTypeOK, Finished, DropWait, restVars
  <2>6. QED
    BY <2>1, <2>2, <2>3, <2>4, <2>5 DEF LifecycleTypeOK, States
<1>22. CASE DropThread
  <2>1. cancelled_token' \in BOOLEAN
    BY <1>22, Zenon DEF LifecycleTypeOK, DropThread, restVars
  <2>2. service' \in [Services -> States]
    BY <1>22 DEF LifecycleTypeOK, States, Ended, EndedOrAborted, Unclean, DropThread, restVars
  <2>3. open' \in [Services -> 0 .. MaxConnections]
    BY <1>22 DEF LifecycleTypeOK, DropThread, restVars
  <2>4. /\ program' \in {"balancer", "agent"} /\ runs_in' \in {"command", "thread"}
        /\ configured' \subseteq Services /\ bundle' \in {"none", "made", "failed"}
        /\ manager' \in {"none", "running", "ok", "error"}
        /\ metrics' \in {"none", "sent", "failed"}
    BY <1>22 DEF LifecycleTypeOK, DropThread, restVars
  <2>5. /\ completion' \in {"pending", "ok", "error", "lost"}
        /\ receiver' \in {"kept", "awaited", "dropped", "told ok", "told error"}
        /\ thread_owner' \in {"holds", "drops", "gone"}
    BY <1>22 DEF LifecycleTypeOK, Finished, DropThread, restVars
  <2>6. QED
    BY <2>1, <2>2, <2>3, <2>4, <2>5 DEF LifecycleTypeOK, States
<1>23. CASE UNCHANGED lifecycleVars
  <2>1. cancelled_token' \in BOOLEAN
    BY <1>23, Zenon DEF LifecycleTypeOK, lifecycleVars, threadVars
  <2>2. service' \in [Services -> States]
    BY <1>23 DEF LifecycleTypeOK, States, Ended, EndedOrAborted, Unclean, lifecycleVars, threadVars
  <2>3. open' \in [Services -> 0 .. MaxConnections]
    BY <1>23 DEF LifecycleTypeOK, lifecycleVars, threadVars
  <2>4. /\ program' \in {"balancer", "agent"} /\ runs_in' \in {"command", "thread"}
        /\ configured' \subseteq Services /\ bundle' \in {"none", "made", "failed"}
        /\ manager' \in {"none", "running", "ok", "error"}
        /\ metrics' \in {"none", "sent", "failed"}
    BY <1>23 DEF LifecycleTypeOK, lifecycleVars, threadVars
  <2>5. /\ completion' \in {"pending", "ok", "error", "lost"}
        /\ receiver' \in {"kept", "awaited", "dropped", "told ok", "told error"}
        /\ thread_owner' \in {"holds", "drops", "gone"}
    BY <1>23 DEF LifecycleTypeOK, Finished, lifecycleVars, threadVars
  <2>6. QED
    BY <2>1, <2>2, <2>3, <2>4, <2>5 DEF LifecycleTypeOK, States
<1>24. QED
  BY <1>1, <1>2, <1>3, <1>4, <1>5, <1>6, <1>7, <1>8, <1>9, <1>10, <1>10a, <1>10b, <1>11, <1>12, <1>13,
     <1>14, <1>15, <1>16, <1>17, <1>18, <1>19, <1>20, <1>21, <1>22, <1>23
  DEF LifecycleNext, ServiceStep, ManagerStep, OwnerStep

\* A step keeps what is there before and while the manager runs (register_bundle).
LEMMA BeforeStep ==
    ASSUME LifecycleTypeOK, NothingBefore, ManagerIsLast, LifecycleStep PROVE NothingBefore'
<1> USE DEF LifecycleStep
<1>1. ASSUME NEW s \in Services, RunHttpService(s) PROVE NothingBefore'
  BY <1>1 DEF LifecycleTypeOK, Ended, EndedOrAborted, Unclean, Finished, NothingBefore, RunHttpService, Becomes, serviceVars, threadVars
<1>2. ASSUME NEW s \in Services, RunLoop(s) PROVE NothingBefore'
  BY <1>2 DEF LifecycleTypeOK, Ended, EndedOrAborted, Unclean, Finished, NothingBefore, RunLoop, Becomes, serviceVars, threadVars
<1>3. ASSUME NEW s \in Services, StopServer(s) PROVE NothingBefore'
  BY <1>3 DEF LifecycleTypeOK, Ended, EndedOrAborted, Unclean, Finished, NothingBefore, StopServer, Becomes, serviceVars, threadVars
<1>4. ASSUME NEW s \in Services, ServerStops(s) PROVE NothingBefore'
  BY <1>4 DEF LifecycleTypeOK, Ended, EndedOrAborted, Unclean, Finished, NothingBefore, ServerStops, Becomes, serviceVars, threadVars
<1>5. ASSUME NEW s \in Services, LoopEnds(s) PROVE NothingBefore'
  BY <1>5 DEF LifecycleTypeOK, Ended, EndedOrAborted, Unclean, Finished, NothingBefore, LoopEnds, Becomes, serviceVars, threadVars
<1>6. ASSUME NEW s \in Services, ServerEnds(s) PROVE NothingBefore'
  BY <1>6 DEF LifecycleTypeOK, Ended, EndedOrAborted, Unclean, Finished, NothingBefore, ServerEnds, Becomes, serviceVars, threadVars
<1>7. ASSUME NEW s \in Services, ReportMetrics(s) PROVE NothingBefore'
  BY <1>7 DEF LifecycleTypeOK, Ended, EndedOrAborted, Unclean, Finished, NothingBefore, ReportMetrics, serviceVars, threadVars
<1>8. ASSUME NEW s \in Services, OpenConnection(s) PROVE NothingBefore'
  BY <1>8 DEF LifecycleTypeOK, Ended, EndedOrAborted, Unclean, Finished, NothingBefore, OpenConnection, serviceVars, threadVars
<1>9. ASSUME NEW s \in Services, CloseConnection(s) PROVE NothingBefore'
  BY <1>9 DEF LifecycleTypeOK, Ended, EndedOrAborted, Unclean, Finished, NothingBefore, CloseConnection, serviceVars, threadVars
<1>10. ASSUME NEW s \in Services, CloseConnectionOnShutdown(s) PROVE NothingBefore'
  BY <1>10 DEF LifecycleTypeOK, Ended, EndedOrAborted, Unclean, Finished, NothingBefore, CloseConnectionOnShutdown, serviceVars, threadVars
<1>10a. ASSUME NEW s \in Services, DrainTimesOut(s) PROVE NothingBefore'
  BY <1>10a DEF LifecycleTypeOK, Ended, EndedOrAborted, Unclean, Finished, NothingBefore, DrainTimesOut, Becomes, serviceVars, threadVars
<1>10b. ASSUME NEW s \in Services, AbortService(s) PROVE NothingBefore'
  BY <1>10b DEF LifecycleTypeOK, Ended, EndedOrAborted, Unclean, Finished, NothingBefore, AbortService, Becomes, serviceVars, threadVars
<1>11. CASE NewBundle
  BY <1>11 DEF LifecycleTypeOK, Ended, EndedOrAborted, Unclean, Finished, NothingBefore, NewBundle, threadVars
<1>12. CASE StartServices
  BY <1>12 DEF LifecycleTypeOK, Ended, EndedOrAborted, Unclean, Finished, NothingBefore, StartServices, StartManager, threadVars
<1>13. CASE StartRunner
  BY <1>13 DEF LifecycleTypeOK, Ended, EndedOrAborted, Unclean, Finished, NothingBefore, StartRunner, StartManager, threadVars
<1>14. CASE ManagerCancels
  BY <1>14 DEF LifecycleTypeOK, Ended, EndedOrAborted, Unclean, Finished, NothingBefore, ManagerCancels, threadVars
<1>15. CASE RunToCompletion
  BY <1>15 DEF LifecycleTypeOK, Ended, EndedOrAborted, Unclean, Finished, NothingBefore, RunToCompletion, threadVars
<1>16. CASE SendCompletion
  BY <1>16 DEF LifecycleTypeOK, Ended, EndedOrAborted, Unclean, Finished, NothingBefore, SendCompletion, restVars
<1>17. CASE TakeCompletion
  BY <1>17 DEF LifecycleTypeOK, Ended, EndedOrAborted, Unclean, Finished, NothingBefore, TakeCompletion, restVars
<1>18. CASE JoinThread
  BY <1>18 DEF LifecycleTypeOK, Ended, EndedOrAborted, Unclean, Finished, NothingBefore, JoinThread, restVars
<1>19. CASE Cancel
  BY <1>19 DEF LifecycleTypeOK, Ended, EndedOrAborted, Unclean, Finished, NothingBefore, Cancel, threadVars
<1>20. CASE WaitForCompletion
  BY <1>20 DEF LifecycleTypeOK, Ended, EndedOrAborted, Unclean, Finished, NothingBefore, WaitForCompletion, restVars
<1>21. CASE DropWait
  BY <1>21 DEF LifecycleTypeOK, Ended, EndedOrAborted, Unclean, Finished, NothingBefore, DropWait, restVars
<1>22. CASE DropThread
  BY <1>22 DEF LifecycleTypeOK, Ended, EndedOrAborted, Unclean, Finished, NothingBefore, DropThread, restVars
<1>23. CASE UNCHANGED lifecycleVars
  BY <1>23 DEF LifecycleTypeOK, Ended, EndedOrAborted, Unclean, Finished, NothingBefore, lifecycleVars, threadVars
<1>24. QED
  BY <1>1, <1>2, <1>3, <1>4, <1>5, <1>6, <1>7, <1>8, <1>9, <1>10, <1>10a, <1>10b, <1>11, <1>12, <1>13,
     <1>14, <1>15, <1>16, <1>17, <1>18, <1>19, <1>20, <1>21, <1>22, <1>23
  DEF LifecycleNext, ServiceStep, ManagerStep, OwnerStep

\* A step leaves connections only to servers (serve_http_until_shutdown).
LEMMA ServersStep ==
    ASSUME LifecycleTypeOK, NothingBefore, ServedByServers, LifecycleStep PROVE ServedByServers'
<1> USE DEF LifecycleStep
<1>1. ASSUME NEW s \in Services, RunHttpService(s) PROVE ServedByServers'
  BY <1>1 DEF LifecycleTypeOK, Ended, EndedOrAborted, Unclean, Finished, NothingBefore, ServedByServers, RunHttpService, Becomes, serviceVars, threadVars
<1>2. ASSUME NEW s \in Services, RunLoop(s) PROVE ServedByServers'
  BY <1>2 DEF LifecycleTypeOK, Ended, EndedOrAborted, Unclean, Finished, NothingBefore, ServedByServers, RunLoop, Becomes, serviceVars, threadVars
<1>3. ASSUME NEW s \in Services, StopServer(s) PROVE ServedByServers'
  BY <1>3 DEF LifecycleTypeOK, Ended, EndedOrAborted, Unclean, Finished, NothingBefore, ServedByServers, StopServer, Becomes, serviceVars, threadVars
<1>4. ASSUME NEW s \in Services, ServerStops(s) PROVE ServedByServers'
  <2>1. open' = open /\ open[s] = 0 /\ \A t \in Services : t # s => service'[t] = service[t]
    BY <1>4 DEF LifecycleTypeOK, ServerStops, Becomes
  <2>2. \A t \in Services : open'[t] > 0 => t # s
    BY <2>1
  <2>3. QED
    BY <2>1, <2>2 DEF ServedByServers
<1>5. ASSUME NEW s \in Services, LoopEnds(s) PROVE ServedByServers'
  BY <1>5 DEF LifecycleTypeOK, Ended, EndedOrAborted, Unclean, Finished, NothingBefore, ServedByServers, LoopEnds, Becomes, serviceVars, threadVars
<1>6. ASSUME NEW s \in Services, ServerEnds(s) PROVE ServedByServers'
  <2>1. open'[s] = 0 /\ \A t \in Services : t # s => service'[t] = service[t] /\ open'[t] = open[t]
    BY <1>6 DEF LifecycleTypeOK, ServerEnds, Becomes
  <2>2. QED
    BY <2>1 DEF ServedByServers
<1>7. ASSUME NEW s \in Services, ReportMetrics(s) PROVE ServedByServers'
  BY <1>7 DEF LifecycleTypeOK, Ended, EndedOrAborted, Unclean, Finished, NothingBefore, ServedByServers, ReportMetrics, serviceVars, threadVars
<1>8. ASSUME NEW s \in Services, OpenConnection(s) PROVE ServedByServers'
  BY <1>8 DEF LifecycleTypeOK, Ended, EndedOrAborted, Unclean, Finished, NothingBefore, ServedByServers, OpenConnection, serviceVars, threadVars
<1>9. ASSUME NEW s \in Services, CloseConnection(s) PROVE ServedByServers'
  BY <1>9 DEF LifecycleTypeOK, Ended, EndedOrAborted, Unclean, Finished, NothingBefore, ServedByServers, CloseConnection, serviceVars, threadVars
<1>10. ASSUME NEW s \in Services, CloseConnectionOnShutdown(s) PROVE ServedByServers'
  BY <1>10 DEF LifecycleTypeOK, Ended, EndedOrAborted, Unclean, Finished, NothingBefore, ServedByServers, CloseConnectionOnShutdown, serviceVars, threadVars
<1>10a. ASSUME NEW s \in Services, DrainTimesOut(s) PROVE ServedByServers'
  <2>1. open'[s] = 0 /\ \A t \in Services : t # s => service'[t] = service[t] /\ open'[t] = open[t]
    BY <1>10a DEF LifecycleTypeOK, DrainTimesOut, Becomes
  <2>2. QED
    BY <2>1 DEF ServedByServers
<1>10b. ASSUME NEW s \in Services, AbortService(s) PROVE ServedByServers'
  BY <1>10b DEF LifecycleTypeOK, Ended, EndedOrAborted, Unclean, Finished, NothingBefore, ServedByServers, AbortService, Becomes, serviceVars, threadVars
<1>11. CASE NewBundle
  BY <1>11 DEF LifecycleTypeOK, Ended, EndedOrAborted, Unclean, Finished, NothingBefore, ServedByServers, NewBundle, threadVars
<1>12. CASE StartServices
  BY <1>12 DEF LifecycleTypeOK, Ended, EndedOrAborted, Unclean, Finished, NothingBefore, ServedByServers, StartServices, StartManager, threadVars
<1>13. CASE StartRunner
  BY <1>13 DEF LifecycleTypeOK, Ended, EndedOrAborted, Unclean, Finished, NothingBefore, ServedByServers, StartRunner, StartManager, threadVars
<1>14. CASE ManagerCancels
  BY <1>14 DEF LifecycleTypeOK, Ended, EndedOrAborted, Unclean, Finished, NothingBefore, ServedByServers, ManagerCancels, threadVars
<1>15. CASE RunToCompletion
  BY <1>15 DEF LifecycleTypeOK, Ended, EndedOrAborted, Unclean, Finished, NothingBefore, ServedByServers, RunToCompletion, threadVars
<1>16. CASE SendCompletion
  BY <1>16 DEF LifecycleTypeOK, Ended, EndedOrAborted, Unclean, Finished, NothingBefore, ServedByServers, SendCompletion, restVars
<1>17. CASE TakeCompletion
  BY <1>17 DEF LifecycleTypeOK, Ended, EndedOrAborted, Unclean, Finished, NothingBefore, ServedByServers, TakeCompletion, restVars
<1>18. CASE JoinThread
  BY <1>18 DEF LifecycleTypeOK, Ended, EndedOrAborted, Unclean, Finished, NothingBefore, ServedByServers, JoinThread, restVars
<1>19. CASE Cancel
  BY <1>19 DEF LifecycleTypeOK, Ended, EndedOrAborted, Unclean, Finished, NothingBefore, ServedByServers, Cancel, threadVars
<1>20. CASE WaitForCompletion
  BY <1>20 DEF LifecycleTypeOK, Ended, EndedOrAborted, Unclean, Finished, NothingBefore, ServedByServers, WaitForCompletion, restVars
<1>21. CASE DropWait
  BY <1>21 DEF LifecycleTypeOK, Ended, EndedOrAborted, Unclean, Finished, NothingBefore, ServedByServers, DropWait, restVars
<1>22. CASE DropThread
  BY <1>22 DEF LifecycleTypeOK, Ended, EndedOrAborted, Unclean, Finished, NothingBefore, ServedByServers, DropThread, restVars
<1>23. CASE UNCHANGED lifecycleVars
  BY <1>23 DEF LifecycleTypeOK, Ended, EndedOrAborted, Unclean, Finished, NothingBefore, ServedByServers, lifecycleVars, threadVars
<1>24. QED
  BY <1>1, <1>2, <1>3, <1>4, <1>5, <1>6, <1>7, <1>8, <1>9, <1>10, <1>10a, <1>10b, <1>11, <1>12, <1>13,
     <1>14, <1>15, <1>16, <1>17, <1>18, <1>19, <1>20, <1>21, <1>22, <1>23
  DEF LifecycleNext, ServiceStep, ManagerStep, OwnerStep

\* A step leaves the manager the last to end (run_to_completion).
LEMMA ManagerStepIsLast ==
    ASSUME LifecycleTypeOK, NothingBefore, ManagerIsLast, LifecycleStep PROVE ManagerIsLast'
<1> USE DEF LifecycleStep
<1>1. ASSUME NEW s \in Services, RunHttpService(s) PROVE ManagerIsLast'
  BY <1>1 DEF LifecycleTypeOK, Ended, EndedOrAborted, Unclean, Finished, NothingBefore, ManagerIsLast, RunHttpService, Becomes, serviceVars, threadVars
<1>2. ASSUME NEW s \in Services, RunLoop(s) PROVE ManagerIsLast'
  BY <1>2 DEF LifecycleTypeOK, Ended, EndedOrAborted, Unclean, Finished, NothingBefore, ManagerIsLast, RunLoop, Becomes, serviceVars, threadVars
<1>3. ASSUME NEW s \in Services, StopServer(s) PROVE ManagerIsLast'
  BY <1>3 DEF LifecycleTypeOK, Ended, EndedOrAborted, Unclean, Finished, NothingBefore, ManagerIsLast, StopServer, Becomes, serviceVars, threadVars
<1>4. ASSUME NEW s \in Services, ServerStops(s) PROVE ManagerIsLast'
  BY <1>4 DEF LifecycleTypeOK, Ended, EndedOrAborted, Unclean, Finished, NothingBefore, ManagerIsLast, ServerStops, Becomes, serviceVars, threadVars
<1>5. ASSUME NEW s \in Services, LoopEnds(s) PROVE ManagerIsLast'
  BY <1>5 DEF LifecycleTypeOK, Ended, EndedOrAborted, Unclean, Finished, NothingBefore, ManagerIsLast, LoopEnds, Becomes, serviceVars, threadVars
<1>6. ASSUME NEW s \in Services, ServerEnds(s) PROVE ManagerIsLast'
  BY <1>6 DEF LifecycleTypeOK, Ended, EndedOrAborted, Unclean, Finished, NothingBefore, ManagerIsLast, ServerEnds, Becomes, serviceVars, threadVars
<1>7. ASSUME NEW s \in Services, ReportMetrics(s) PROVE ManagerIsLast'
  BY <1>7 DEF LifecycleTypeOK, Ended, EndedOrAborted, Unclean, Finished, NothingBefore, ManagerIsLast, ReportMetrics, serviceVars, threadVars
<1>8. ASSUME NEW s \in Services, OpenConnection(s) PROVE ManagerIsLast'
  BY <1>8 DEF LifecycleTypeOK, Ended, EndedOrAborted, Unclean, Finished, NothingBefore, ManagerIsLast, OpenConnection, serviceVars, threadVars
<1>9. ASSUME NEW s \in Services, CloseConnection(s) PROVE ManagerIsLast'
  BY <1>9 DEF LifecycleTypeOK, Ended, EndedOrAborted, Unclean, Finished, NothingBefore, ManagerIsLast, CloseConnection, serviceVars, threadVars
<1>10. ASSUME NEW s \in Services, CloseConnectionOnShutdown(s) PROVE ManagerIsLast'
  BY <1>10 DEF LifecycleTypeOK, Ended, EndedOrAborted, Unclean, Finished, NothingBefore, ManagerIsLast, CloseConnectionOnShutdown, serviceVars, threadVars
<1>10a. ASSUME NEW s \in Services, DrainTimesOut(s) PROVE ManagerIsLast'
  BY <1>10a DEF LifecycleTypeOK, Ended, EndedOrAborted, Unclean, Finished, NothingBefore, ManagerIsLast, DrainTimesOut, Becomes, serviceVars, threadVars
<1>10b. ASSUME NEW s \in Services, AbortService(s) PROVE ManagerIsLast'
  BY <1>10b DEF LifecycleTypeOK, Ended, EndedOrAborted, Unclean, Finished, NothingBefore, ManagerIsLast, AbortService, Becomes, serviceVars, threadVars
<1>11. CASE NewBundle
  BY <1>11 DEF LifecycleTypeOK, Ended, EndedOrAborted, Unclean, Finished, NothingBefore, ManagerIsLast, NewBundle, threadVars
<1>12. CASE StartServices
  BY <1>12 DEF LifecycleTypeOK, Ended, EndedOrAborted, Unclean, Finished, NothingBefore, ManagerIsLast, StartServices, StartManager, threadVars
<1>13. CASE StartRunner
  BY <1>13 DEF LifecycleTypeOK, Ended, EndedOrAborted, Unclean, Finished, NothingBefore, ManagerIsLast, StartRunner, StartManager, threadVars
<1>14. CASE ManagerCancels
  BY <1>14 DEF LifecycleTypeOK, Ended, EndedOrAborted, Unclean, Finished, NothingBefore, ManagerIsLast, ManagerCancels, threadVars
<1>15. CASE RunToCompletion
  BY <1>15 DEF LifecycleTypeOK, Ended, EndedOrAborted, Unclean, Finished, NothingBefore, ManagerIsLast, RunToCompletion, threadVars
<1>16. CASE SendCompletion
  BY <1>16 DEF LifecycleTypeOK, Ended, EndedOrAborted, Unclean, Finished, NothingBefore, ManagerIsLast, SendCompletion, restVars
<1>17. CASE TakeCompletion
  BY <1>17 DEF LifecycleTypeOK, Ended, EndedOrAborted, Unclean, Finished, NothingBefore, ManagerIsLast, TakeCompletion, restVars
<1>18. CASE JoinThread
  BY <1>18 DEF LifecycleTypeOK, Ended, EndedOrAborted, Unclean, Finished, NothingBefore, ManagerIsLast, JoinThread, restVars
<1>19. CASE Cancel
  BY <1>19 DEF LifecycleTypeOK, Ended, EndedOrAborted, Unclean, Finished, NothingBefore, ManagerIsLast, Cancel, threadVars
<1>20. CASE WaitForCompletion
  BY <1>20 DEF LifecycleTypeOK, Ended, EndedOrAborted, Unclean, Finished, NothingBefore, ManagerIsLast, WaitForCompletion, restVars
<1>21. CASE DropWait
  BY <1>21 DEF LifecycleTypeOK, Ended, EndedOrAborted, Unclean, Finished, NothingBefore, ManagerIsLast, DropWait, restVars
<1>22. CASE DropThread
  BY <1>22 DEF LifecycleTypeOK, Ended, EndedOrAborted, Unclean, Finished, NothingBefore, ManagerIsLast, DropThread, restVars
<1>23. CASE UNCHANGED lifecycleVars
  BY <1>23 DEF LifecycleTypeOK, Ended, EndedOrAborted, Unclean, Finished, NothingBefore, ManagerIsLast, lifecycleVars, threadVars
<1>24. QED
  BY <1>1, <1>2, <1>3, <1>4, <1>5, <1>6, <1>7, <1>8, <1>9, <1>10, <1>10a, <1>10b, <1>11, <1>12, <1>13,
     <1>14, <1>15, <1>16, <1>17, <1>18, <1>19, <1>20, <1>21, <1>22, <1>23
  DEF LifecycleNext, ServiceStep, ManagerStep, OwnerStep

\* A step hands on the result of the manager and no other (ServiceThread).
LEMMA ResultStep ==
    ASSUME LifecycleTypeOK, NothingBefore, ResultIsHandedOn, LifecycleStep PROVE ResultIsHandedOn'
<1> USE DEF LifecycleStep
<1>1. ASSUME NEW s \in Services, RunHttpService(s) PROVE ResultIsHandedOn'
  BY <1>1 DEF LifecycleTypeOK, Ended, EndedOrAborted, Unclean, Finished, NothingBefore, ResultIsHandedOn, RunHttpService, Becomes, serviceVars, threadVars
<1>2. ASSUME NEW s \in Services, RunLoop(s) PROVE ResultIsHandedOn'
  BY <1>2 DEF LifecycleTypeOK, Ended, EndedOrAborted, Unclean, Finished, NothingBefore, ResultIsHandedOn, RunLoop, Becomes, serviceVars, threadVars
<1>3. ASSUME NEW s \in Services, StopServer(s) PROVE ResultIsHandedOn'
  BY <1>3 DEF LifecycleTypeOK, Ended, EndedOrAborted, Unclean, Finished, NothingBefore, ResultIsHandedOn, StopServer, Becomes, serviceVars, threadVars
<1>4. ASSUME NEW s \in Services, ServerStops(s) PROVE ResultIsHandedOn'
  BY <1>4 DEF LifecycleTypeOK, Ended, EndedOrAborted, Unclean, Finished, NothingBefore, ResultIsHandedOn, ServerStops, Becomes, serviceVars, threadVars
<1>5. ASSUME NEW s \in Services, LoopEnds(s) PROVE ResultIsHandedOn'
  BY <1>5 DEF LifecycleTypeOK, Ended, EndedOrAborted, Unclean, Finished, NothingBefore, ResultIsHandedOn, LoopEnds, Becomes, serviceVars, threadVars
<1>6. ASSUME NEW s \in Services, ServerEnds(s) PROVE ResultIsHandedOn'
  BY <1>6 DEF LifecycleTypeOK, Ended, EndedOrAborted, Unclean, Finished, NothingBefore, ResultIsHandedOn, ServerEnds, Becomes, serviceVars, threadVars
<1>7. ASSUME NEW s \in Services, ReportMetrics(s) PROVE ResultIsHandedOn'
  BY <1>7 DEF LifecycleTypeOK, Ended, EndedOrAborted, Unclean, Finished, NothingBefore, ResultIsHandedOn, ReportMetrics, serviceVars, threadVars
<1>8. ASSUME NEW s \in Services, OpenConnection(s) PROVE ResultIsHandedOn'
  BY <1>8 DEF LifecycleTypeOK, Ended, EndedOrAborted, Unclean, Finished, NothingBefore, ResultIsHandedOn, OpenConnection, serviceVars, threadVars
<1>9. ASSUME NEW s \in Services, CloseConnection(s) PROVE ResultIsHandedOn'
  BY <1>9 DEF LifecycleTypeOK, Ended, EndedOrAborted, Unclean, Finished, NothingBefore, ResultIsHandedOn, CloseConnection, serviceVars, threadVars
<1>10. ASSUME NEW s \in Services, CloseConnectionOnShutdown(s) PROVE ResultIsHandedOn'
  BY <1>10 DEF LifecycleTypeOK, Ended, EndedOrAborted, Unclean, Finished, NothingBefore, ResultIsHandedOn, CloseConnectionOnShutdown, serviceVars, threadVars
<1>10a. ASSUME NEW s \in Services, DrainTimesOut(s) PROVE ResultIsHandedOn'
  BY <1>10a DEF LifecycleTypeOK, Ended, EndedOrAborted, Unclean, Finished, NothingBefore, ResultIsHandedOn, DrainTimesOut, Becomes, serviceVars, threadVars
<1>10b. ASSUME NEW s \in Services, AbortService(s) PROVE ResultIsHandedOn'
  BY <1>10b DEF LifecycleTypeOK, Ended, EndedOrAborted, Unclean, Finished, NothingBefore, ResultIsHandedOn, AbortService, Becomes, serviceVars, threadVars
<1>11. CASE NewBundle
  BY <1>11 DEF LifecycleTypeOK, Ended, EndedOrAborted, Unclean, Finished, NothingBefore, ResultIsHandedOn, NewBundle, threadVars
<1>12. CASE StartServices
  BY <1>12 DEF LifecycleTypeOK, Ended, EndedOrAborted, Unclean, Finished, NothingBefore, ResultIsHandedOn, StartServices, StartManager, threadVars
<1>13. CASE StartRunner
  BY <1>13 DEF LifecycleTypeOK, Ended, EndedOrAborted, Unclean, Finished, NothingBefore, ResultIsHandedOn, StartRunner, StartManager, threadVars
<1>14. CASE ManagerCancels
  BY <1>14 DEF LifecycleTypeOK, Ended, EndedOrAborted, Unclean, Finished, NothingBefore, ResultIsHandedOn, ManagerCancels, threadVars
<1>15. CASE RunToCompletion
  BY <1>15 DEF LifecycleTypeOK, Ended, EndedOrAborted, Unclean, Finished, NothingBefore, ResultIsHandedOn, RunToCompletion, threadVars
<1>16. CASE SendCompletion
  BY <1>16 DEF LifecycleTypeOK, Ended, EndedOrAborted, Unclean, Finished, NothingBefore, ResultIsHandedOn, SendCompletion, restVars
<1>17. CASE TakeCompletion
  BY <1>17 DEF LifecycleTypeOK, Ended, EndedOrAborted, Unclean, Finished, NothingBefore, ResultIsHandedOn, TakeCompletion, restVars
<1>18. CASE JoinThread
  BY <1>18 DEF LifecycleTypeOK, Ended, EndedOrAborted, Unclean, Finished, NothingBefore, ResultIsHandedOn, JoinThread, restVars
<1>19. CASE Cancel
  BY <1>19 DEF LifecycleTypeOK, Ended, EndedOrAborted, Unclean, Finished, NothingBefore, ResultIsHandedOn, Cancel, threadVars
<1>20. CASE WaitForCompletion
  BY <1>20 DEF LifecycleTypeOK, Ended, EndedOrAborted, Unclean, Finished, NothingBefore, ResultIsHandedOn, WaitForCompletion, restVars
<1>21. CASE DropWait
  BY <1>21 DEF LifecycleTypeOK, Ended, EndedOrAborted, Unclean, Finished, NothingBefore, ResultIsHandedOn, DropWait, restVars
<1>22. CASE DropThread
  BY <1>22 DEF LifecycleTypeOK, Ended, EndedOrAborted, Unclean, Finished, NothingBefore, ResultIsHandedOn, DropThread, restVars
<1>23. CASE UNCHANGED lifecycleVars
  BY <1>23 DEF LifecycleTypeOK, Ended, EndedOrAborted, Unclean, Finished, NothingBefore, ResultIsHandedOn, lifecycleVars, threadVars
<1>24. QED
  BY <1>1, <1>2, <1>3, <1>4, <1>5, <1>6, <1>7, <1>8, <1>9, <1>10, <1>10a, <1>10b, <1>11, <1>12, <1>13,
     <1>14, <1>15, <1>16, <1>17, <1>18, <1>19, <1>20, <1>21, <1>22, <1>23
  DEF LifecycleNext, ServiceStep, ManagerStep, OwnerStep

\* A program begins with nothing started.
LEMMA LifecycleBegins == LifecycleInit => LifecycleInv
<1>1. SUFFICES ASSUME LifecycleInit PROVE LifecycleInv
  OBVIOUS
<1>2. cancelled_token \in BOOLEAN
  BY <1>1, Zenon DEF LifecycleInit
<1>3. configured \subseteq Services
  BY <1>1 DEF LifecycleInit, Services, BalancerServiceBundles, AgentServiceBundle
<1>4. service \in [Services -> {"absent", "starting", "up", "stopping"} \cup EndedOrAborted]
  BY <1>1 DEF LifecycleInit
<1>5. open \in [Services -> 0 .. MaxConnections]
  BY <1>1, LifecycleAssumption DEF LifecycleInit
<1>6. LifecycleTypeOK
  BY <1>1, <1>2, <1>3, <1>4, <1>5 DEF LifecycleInit, LifecycleTypeOK
<1>7. NothingBefore
  BY <1>1, <1>3 DEF LifecycleInit, NothingBefore
<1>8. ServedByServers /\ ManagerIsLast /\ ResultIsHandedOn
  BY <1>1 DEF LifecycleInit, ServedByServers, ManagerIsLast, ResultIsHandedOn
<1>9. QED
  BY <1>6, <1>7, <1>8 DEF LifecycleInv

\* Every step of the services, the manager and the owner keeps the invariant.
LEMMA LifecycleGoesOn == LifecycleInv /\ LifecycleStep => LifecycleInv'
BY TypeStep, BeforeStep, ServersStep, ManagerStepIsLast, ResultStep DEF LifecycleInv

\* In every behaviour, each stage of a program's life has what it says and no more.
THEOREM LifecycleIsSound == ServingSpec => []LifecycleInv
<1>1. ServingInit => LifecycleInv
  BY LifecycleBegins DEF ServingInit
<1>2. [ServingNext]_<<part, vars, forwardingVars, lifecycleVars>> => LifecycleStep
  BY DEF ServingNext, LifecycleStep
<1>3. LifecycleInv /\ [ServingNext]_<<part, vars, forwardingVars, lifecycleVars>> => LifecycleInv'
  BY <1>2, LifecycleGoesOn
<1>4. QED
  BY <1>1, <1>3, PTL DEF ServingSpec

\* When the manager is done or the dropped runner's thread is joined, no service runs,
\* only one that was aborted at the deadline has left connections open, and whoever
\* awaits the completion is told of an error exactly if a service has failed or was
\* aborted (serve_http_until_shutdown, run_service_manager, ServiceThread).
THEOREM LivesEndCleanly == ServingSpec => []LifeIsSound
<1>1. ASSUME LifecycleInv PROVE LifeIsSound
  <2>1. LifecycleTypeOK /\ NothingBefore /\ ServedByServers /\ ManagerIsLast /\ ResultIsHandedOn
    BY <1>1 DEF LifecycleInv
  <2>2. ASSUME Finished PROVE \A s \in Services : service[s] \in EndedOrAborted \cup {"absent"}
    BY <2>1, <2>2 DEF NothingBefore, ManagerIsLast
  <2>3. ASSUME Finished PROVE \A s \in Services : open[s] > 0 => service[s] = "aborted"
    <3>1. SUFFICES ASSUME NEW s \in Services, open[s] > 0 PROVE service[s] = "aborted"
      OBVIOUS
    <3>2. service[s] \notin {"up", "stopping"}
      BY <2>2, <2>3 DEF Ended, EndedOrAborted
    <3>3. QED
      BY <2>1, <3>1, <3>2 DEF ServedByServers
  <2>4. thread_owner = "gone" => Finished
    BY <2>1 DEF ResultIsHandedOn
  <2>5. ASSUME receiver \in {"told ok", "told error"}
        PROVE  receiver = "told error" <=> \E s \in Services : service[s] \in Unclean
    BY <2>1, <2>5 DEF Unclean, Finished, NothingBefore, ManagerIsLast, ResultIsHandedOn
  <2>6. QED
    BY <2>1, <2>2, <2>3, <2>4, <2>5 DEF LifeIsSound, EndIsClean
<1>2. QED
  BY <1>1, LifecycleIsSound, PTL

=============================================================================
