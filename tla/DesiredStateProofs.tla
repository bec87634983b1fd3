------------------------- MODULE DesiredStateProofs -------------------------
(***************************************************************************)
(* Proofs about the way of a desired state, from the request that stores   *)
(* it to the scheduler that serves its model: what reconciliation is told  *)
(* is what is stored, for any number of concurrent requests, states and    *)
(* crashes; what the agents were told, for any agents, any states and any  *)
(* channel; that a swap of an agent's model is clean; and the types of the *)
(* whole way.                                                              *)
(***************************************************************************)
EXTENDS MCDesiredState, FiniteSetTheorems, TLAPS

-----------------------------------------------------------------------------
(***************************************************************************)
(* The agent: a swap of its model is clean, for any requests, models,      *)
(* slots and number of desired states.                                     *)
(*                                                                         *)
(* SwapIsClean is not inductive.  What it needs: the counter is exact      *)
(* until a reset wipes it (CountIsExact); only a scheduler has active      *)
(* requests (ActiveIsScheduled); a state, once there was one, is never     *)
(* lost again on its way from the reconciliation to the scheduler          *)
(* (StateIsKept), so that a teardown that is not followed by a reset had   *)
(* no slots to take back; and where the arbiter stands between two awaits  *)
(* says what it has left of the scheduler (ApplyShape).                    *)
(***************************************************************************)

\* Until a reset has wiped it the count is the number of guards, and never more.
CountIsExact ==
    /\ slots_processing <= Cardinality(Guards)
    /\ ~wiped => slots_processing = Cardinality(Guards)

\* Requests are active in a scheduler.
ActiveIsScheduled == Active # {} => scheduler # NoAgentState

\* What came before in the chain desired, holder, current, scheduler is set too.
StateIsKept ==
    /\ holder # NoAgentState => desired # NoAgentState
    /\ current # NoAgentState => holder # NoAgentState
    /\ scheduler # NoAgentState \/ slots_total > 0 => current # NoAgentState

\* Where apply_state stands.
ApplyShape ==
    /\ arbiter \in {"drain", "teardown", "reset", "spawn", "mark"} => status # "Applied"
    /\ arbiter \in {"reset", "spawn"} => scheduler = NoAgentState
    /\ arbiter = "reset" => current # NoAgentState
    /\ arbiter = "spawn" => current \in AgentState
    /\ arbiter = "mark" /\ ~shutdown =>
           scheduler = IF current \in AgentState THEN current ELSE NoAgentState

ArbiterInv ==
    /\ AgentArbiterTypeOK
    /\ CountIsExact
    /\ ActiveIsScheduled
    /\ StateIsKept
    /\ ApplyShape
    /\ AppliedIsRunning
    /\ SlotsOnlyWithScheduler
    /\ DrainedBeforeTeardown

-----------------------------------------------------------------------------
\* Guards are finitely many, and a request that is queued is not active.
LEMMA GuardsAreFinite ==
    ASSUME AgentArbiterTypeOK
    PROVE  /\ IsFiniteSet(Queued) /\ IsFiniteSet(Active) /\ IsFiniteSet(Guards)
           /\ Cardinality(Queued) \in Nat /\ Cardinality(Active) \in Nat
           /\ Cardinality(Guards) \in Nat
           /\ Cardinality(Guards) = Cardinality(Queued) + Cardinality(Active)
<1>1. Queued \subseteq Request /\ Active \subseteq Request
  BY DEF Queued, Active
<1>2. IsFiniteSet(Queued) /\ IsFiniteSet(Active)
  BY <1>1, ArbiterAssumption, FS_Subset
<1>3. /\ IsFiniteSet(Guards)
      /\ Cardinality(Guards) =
             Cardinality(Queued) + Cardinality(Active) - Cardinality(Queued \cap Active)
  BY <1>2, FS_Union DEF Guards
<1>4. Queued \cap Active = {}
  BY DEF Queued, Active
<1>5. Cardinality({}) = 0
  BY FS_EmptySet
<1>6. /\ Cardinality(Queued) \in Nat /\ Cardinality(Active) \in Nat
      /\ Cardinality(Guards) \in Nat
  BY <1>2, <1>3, FS_CardinalityType
<1>7. QED
  BY <1>2, <1>3, <1>4, <1>5, <1>6

\* A step keeps the types.
LEMMA StepKeepsTypes ==
    ASSUME AgentArbiterTypeOK, ApplyShape, [AgentArbiterNext]_agentArbiterVars
    PROVE  AgentArbiterTypeOK'
<1> USE ArbiterAssumption
<1>1. ASSUME NEW state \in DesiredState, SetState(state) PROVE AgentArbiterTypeOK'
  BY <1>1 DEF AgentArbiterTypeOK, SetState, reconcileVars, applyVars, slotVars, DesiredState
<1>2. CASE UpdateStatus
  BY <1>2 DEF AgentArbiterTypeOK, UpdateStatus, reconcileVars, applyVars, slotVars
<1>3. ASSUME NEW r \in Request, GenerateResponses(r) PROVE AgentArbiterTypeOK'
  BY <1>3 DEF AgentArbiterTypeOK, GenerateResponses, reconcileVars, applyVars, slotVars
<1>4. ASSUME NEW r \in Request, Complete(r) PROVE AgentArbiterTypeOK'
  BY <1>4 DEF AgentArbiterTypeOK, Complete, reconcileVars, applyVars, slotVars
<1>5. CASE Shutdown
  BY <1>5 DEF AgentArbiterTypeOK, Shutdown, reconcileVars, applyVars, slotVars
<1>6. CASE ReceiveDesiredState
  <2>1. desired_rx \in Seq(DesiredState) /\ desired_rx # <<>>
    BY <1>6 DEF AgentArbiterTypeOK, ReceiveDesiredState
  <2>2. Head(desired_rx) \in DesiredState /\ Tail(desired_rx) \in Seq(DesiredState)
    BY <2>1
  <2>3. /\ desired_rx' \in Seq(DesiredState) /\ desired' \in DesiredState
        /\ converted' = FALSE /\ converting' = TRUE
        /\ UNCHANGED <<sent, last, holder, applyVars, slotVars, shutdown, wiped>>
    BY <1>6, <2>2 DEF ReceiveDesiredState
  <2>4. QED
    BY <2>3, Zenon DEF AgentArbiterTypeOK, applyVars, slotVars
<1>7. CASE RetryConversion
  BY <1>7 DEF AgentArbiterTypeOK, RetryConversion, reconcileVars, applyVars, slotVars
<1>8. CASE FailConversion
  <2>1. /\ converting' = FALSE
        /\ UNCHANGED <<desired_rx, desired, converted, sent, last, holder, applyVars, slotVars,
                       shutdown, wiped>>
    BY <1>8, Zenon DEF FailConversion
  <2>2. converting' \in BOOLEAN
    BY <2>1
  <2>3. QED
    BY <2>1, <2>2, SMT DEF AgentArbiterTypeOK, applyVars, slotVars
<1>9. CASE FinishConversion
  <2>1. \/ holder' = desired /\ changed' = TRUE /\ converted' = TRUE
        \/ holder' = holder /\ changed' = changed /\ converted' = converted
    BY <1>9, Zenon DEF FinishConversion
  <2>2. holder' \in DesiredState \cup {NoAgentState}
    BY <2>1, Zenon DEF AgentArbiterTypeOK
  <2>3. changed' \in BOOLEAN /\ converted' \in BOOLEAN
    BY <2>1, Zenon DEF AgentArbiterTypeOK
  <2>4. /\ converting' = FALSE
        /\ UNCHANGED <<desired_rx, desired, sent, last, arbiter, current, scheduler, status>>
        /\ UNCHANGED <<request, slots_processing, slots_total, known_total, shutdown, wiped>>
    BY <1>9, Zenon DEF FinishConversion, slotVars
  <2>5. QED
    BY <2>2, <2>3, <2>4, Zenon DEF AgentArbiterTypeOK
<1>10. CASE RetryApply
  BY <1>10 DEF AgentArbiterTypeOK, RetryApply, reconcileVars, applyVars, slotVars, BeginApply, Statuses, ShouldTryToApply
<1>11. CASE ReceiveApplicableState
  BY <1>11 DEF AgentArbiterTypeOK, ReceiveApplicableState, reconcileVars, applyVars, slotVars, BeginApply, Statuses
<1>12. ASSUME NEW r \in Request, ForwardCommand(r) PROVE AgentArbiterTypeOK'
  BY <1>12 DEF AgentArbiterTypeOK, ForwardCommand, reconcileVars, applyVars, slotVars
<1>13. CASE DrainInFlightRequests
  BY <1>13 DEF AgentArbiterTypeOK, DrainInFlightRequests, reconcileVars, applyVars, slotVars
<1>14. CASE ShutdownArbiterHandle
  BY <1>14, GuardsAreFinite DEF AgentArbiterTypeOK, ShutdownArbiterHandle, reconcileVars, applyVars, slotVars, EndScheduler, Active
<1>15. CASE Reset
  BY <1>15 DEF AgentArbiterTypeOK, Reset, reconcileVars, applyVars, slotVars
<1>16. CASE SpawnScheduler
  BY <1>16 DEF AgentArbiterTypeOK, ApplyShape, SpawnScheduler, reconcileVars, applyVars, slotVars
<1>17. CASE SpawnFails
  BY <1>17 DEF AgentArbiterTypeOK, SpawnFails, reconcileVars, applyVars, slotVars
<1>18. CASE SpawnCancelled
  BY <1>18 DEF AgentArbiterTypeOK, SpawnCancelled, reconcileVars, applyVars, slotVars
<1>19. CASE MarkApplied
  BY <1>19 DEF AgentArbiterTypeOK, MarkApplied, reconcileVars, applyVars, slotVars, Statuses
<1>20. CASE StopArbiter
  BY <1>20, GuardsAreFinite DEF AgentArbiterTypeOK, StopArbiter, reconcileVars, applyVars, slotVars, Guards, Queued, Active
<1>21. CASE UNCHANGED agentArbiterVars
  BY <1>21 DEF AgentArbiterTypeOK, agentArbiterVars, reconcileVars, applyVars, slotVars
<1>22. QED
  BY <1>1, <1>2, <1>3, <1>4, <1>5, <1>6, <1>7, <1>8, <1>9, <1>10, <1>11, <1>12, <1>13, <1>14, <1>15, <1>16, <1>17, <1>18, <1>19, <1>20, <1>21
  DEF AgentArbiterNext, ReconciliationStep, ArbiterStep

\* A step keeps the count.
LEMMA StepKeepsCount ==
    ASSUME AgentArbiterTypeOK, CountIsExact, [AgentArbiterNext]_agentArbiterVars
    PROVE  CountIsExact'
<1>0. request' = request /\ slots_processing' = slots_processing /\ wiped' = wiped => CountIsExact'
  BY DEF CountIsExact, Guards, Queued, Active
<1>1. ASSUME NEW state \in DesiredState, SetState(state) PROVE CountIsExact'
  BY <1>1, <1>0 DEF SetState, applyVars, slotVars
<1>2. CASE UpdateStatus
  BY <1>2, <1>0 DEF UpdateStatus, reconcileVars, applyVars
<1>3. ASSUME NEW r \in Request, GenerateResponses(r) PROVE CountIsExact'
  <2>1. Guards' = Guards \cup {r} /\ r \notin Guards
    BY <1>3 DEF GenerateResponses, AgentArbiterTypeOK, Guards, Queued, Active
  <2>2. Cardinality(Guards') = Cardinality(Guards) + 1
    BY <2>1, GuardsAreFinite, FS_AddElement
  <2>3. slots_processing' = slots_processing + 1 /\ wiped' = wiped
    BY <1>3 DEF GenerateResponses
  <2>4. QED
    BY <2>2, <2>3, GuardsAreFinite DEF CountIsExact, AgentArbiterTypeOK
<1>4. ASSUME NEW r \in Request, Complete(r) PROVE CountIsExact'
  <2>1. Guards' = Guards \ {r} /\ r \in Guards
    BY <1>4 DEF Complete, AgentArbiterTypeOK, Guards, Queued, Active
  <2>2. Cardinality(Guards') = Cardinality(Guards) - 1
    BY <2>1, GuardsAreFinite, FS_RemoveElement
  <2>3. slots_processing' = slots_processing - 1 /\ wiped' = wiped
    BY <1>4 DEF Complete
  <2>4. QED
    BY <2>2, <2>3, GuardsAreFinite DEF CountIsExact, AgentArbiterTypeOK
<1>5. CASE Shutdown
  BY <1>5, <1>0 DEF Shutdown, reconcileVars, applyVars, slotVars
<1>6. CASE ReceiveDesiredState
  BY <1>6, <1>0 DEF ReceiveDesiredState, applyVars, slotVars
<1>7. CASE RetryConversion
  BY <1>7, <1>0 DEF RetryConversion, applyVars, slotVars
<1>8. CASE FailConversion
  BY <1>8, <1>0 DEF FailConversion, applyVars, slotVars
<1>9. CASE FinishConversion
  BY <1>9, <1>0 DEF FinishConversion, slotVars
<1>10. CASE RetryApply
  BY <1>10, <1>0 DEF RetryApply, reconcileVars, slotVars, BeginApply
<1>11. CASE ReceiveApplicableState
  BY <1>11, <1>0 DEF ReceiveApplicableState, reconcileVars, slotVars, BeginApply
<1>12. ASSUME NEW r \in Request, ForwardCommand(r) PROVE CountIsExact'
  <2>1. CASE scheduler # NoAgentState
    <3>1. Guards' = Guards /\ slots_processing' = slots_processing /\ wiped' = wiped
      BY <1>12, <2>1 DEF ForwardCommand, AgentArbiterTypeOK, Guards, Queued, Active
    <3>2. QED
      BY <3>1 DEF CountIsExact
  <2>2. CASE scheduler = NoAgentState
    <3>1. Guards' = Guards \ {r} /\ r \in Guards
      BY <1>12, <2>2 DEF ForwardCommand, AgentArbiterTypeOK, Guards, Queued, Active
    <3>2. Cardinality(Guards') = Cardinality(Guards) - 1
      BY <3>1, GuardsAreFinite, FS_RemoveElement
    <3>3. slots_processing' = slots_processing - 1 /\ wiped' = wiped
      BY <1>12, <2>2 DEF ForwardCommand
    <3>4. QED
      BY <3>2, <3>3, GuardsAreFinite DEF CountIsExact, AgentArbiterTypeOK
  <2>3. QED
    BY <2>1, <2>2
<1>13. CASE DrainInFlightRequests
  BY <1>13, <1>0 DEF DrainInFlightRequests, reconcileVars, slotVars
<1>14. CASE ShutdownArbiterHandle
  <2>1. Guards' = Queued
    BY <1>14 DEF ShutdownArbiterHandle, EndScheduler, AgentArbiterTypeOK, Guards, Queued, Active
  <2>2. slots_processing' = slots_processing - Cardinality(Active) /\ wiped' = wiped
    BY <1>14 DEF ShutdownArbiterHandle, EndScheduler
  <2>3. QED
    BY <2>1, <2>2, GuardsAreFinite DEF CountIsExact, AgentArbiterTypeOK
<1>15. CASE Reset
  <2>1. Guards' = Guards /\ slots_processing' = 0 /\ (~wiped' => Guards = {})
    BY <1>15 DEF Reset, Guards, Queued, Active
  <2>2. Cardinality({}) = 0
    BY FS_EmptySet
  <2>3. QED
    BY <2>1, <2>2, GuardsAreFinite DEF CountIsExact
<1>16. CASE SpawnScheduler
  BY <1>16, <1>0 DEF SpawnScheduler, reconcileVars
<1>17. CASE SpawnFails
  BY <1>17, <1>0 DEF SpawnFails, reconcileVars, slotVars
<1>18. CASE SpawnCancelled
  BY <1>18, <1>0 DEF SpawnCancelled, reconcileVars, slotVars
<1>19. CASE MarkApplied
  BY <1>19, <1>0 DEF MarkApplied, reconcileVars, slotVars
<1>20. CASE StopArbiter
  <2>1. Guards' = {}
    BY <1>20 DEF StopArbiter, AgentArbiterTypeOK, Guards, Queued, Active
  <2>2. slots_processing' = slots_processing - Cardinality(Guards) /\ wiped' = wiped
    BY <1>20 DEF StopArbiter
  <2>3. Cardinality({}) = 0
    BY FS_EmptySet
  <2>4. QED
    BY <2>1, <2>2, <2>3, GuardsAreFinite DEF CountIsExact, AgentArbiterTypeOK
<1>21. CASE UNCHANGED agentArbiterVars
  BY <1>21, <1>0 DEF agentArbiterVars
<1>22. QED
  BY <1>1, <1>2, <1>3, <1>4, <1>5, <1>6, <1>7, <1>8, <1>9, <1>10, <1>11, <1>12, <1>13, <1>14,
     <1>15, <1>16, <1>17, <1>18, <1>19, <1>20, <1>21
  DEF AgentArbiterNext, ReconciliationStep, ArbiterStep

\* A step keeps that only a scheduler has active requests.
LEMMA StepKeepsActive ==
    ASSUME AgentArbiterTypeOK, ActiveIsScheduled, ApplyShape, [AgentArbiterNext]_agentArbiterVars
    PROVE  ActiveIsScheduled'
<1> USE ArbiterAssumption
<1>1. ASSUME NEW state \in DesiredState, SetState(state) PROVE ActiveIsScheduled'
  BY <1>1
  DEF ActiveIsScheduled, Active, SetState, applyVars, slotVars
<1>2. CASE UpdateStatus
  BY <1>2
  DEF ActiveIsScheduled, Active, UpdateStatus, reconcileVars, applyVars
<1>3. ASSUME NEW r \in Request, GenerateResponses(r) PROVE ActiveIsScheduled'
  BY <1>3
  DEF ActiveIsScheduled, Active, AgentArbiterTypeOK, GenerateResponses, reconcileVars, applyVars
<1>4. ASSUME NEW r \in Request, Complete(r) PROVE ActiveIsScheduled'
  BY <1>4
  DEF ActiveIsScheduled, Active, AgentArbiterTypeOK, Complete, reconcileVars, applyVars
<1>5. CASE Shutdown
  BY <1>5
  DEF ActiveIsScheduled, Active, Shutdown, reconcileVars, applyVars, slotVars
<1>6. CASE ReceiveDesiredState
  BY <1>6
  DEF ActiveIsScheduled, Active, ReceiveDesiredState, applyVars, slotVars
<1>7. CASE RetryConversion
  BY <1>7
  DEF ActiveIsScheduled, Active, RetryConversion, applyVars, slotVars
<1>8. CASE FailConversion
  BY <1>8
  DEF ActiveIsScheduled, Active, FailConversion, applyVars, slotVars
<1>9. CASE FinishConversion
  BY <1>9
  DEF ActiveIsScheduled, Active, FinishConversion, slotVars
<1>10. CASE RetryApply
  BY <1>10
  DEF ActiveIsScheduled, Active, RetryApply, reconcileVars, slotVars, BeginApply
<1>11. CASE ReceiveApplicableState
  BY <1>11
  DEF ActiveIsScheduled, Active, ReceiveApplicableState, reconcileVars, slotVars, BeginApply
<1>12. ASSUME NEW r \in Request, ForwardCommand(r) PROVE ActiveIsScheduled'
  BY <1>12
  DEF ActiveIsScheduled, Active, AgentArbiterTypeOK, ForwardCommand, reconcileVars, applyVars
<1>13. CASE DrainInFlightRequests
  BY <1>13
  DEF ActiveIsScheduled, Active, DrainInFlightRequests, reconcileVars, slotVars
<1>14. CASE ShutdownArbiterHandle
  BY <1>14
  DEF ActiveIsScheduled, Active, AgentArbiterTypeOK, ShutdownArbiterHandle, reconcileVars, EndScheduler
<1>15. CASE Reset
  BY <1>15
  DEF ActiveIsScheduled, Active, Reset, reconcileVars
<1>16. CASE SpawnScheduler
  BY <1>16
  DEF ActiveIsScheduled, Active, ApplyShape, SpawnScheduler, reconcileVars
<1>17. CASE SpawnFails
  BY <1>17
  DEF ActiveIsScheduled, Active, SpawnFails, reconcileVars, slotVars
<1>18. CASE SpawnCancelled
  BY <1>18
  DEF ActiveIsScheduled, Active, SpawnCancelled, reconcileVars, slotVars
<1>19. CASE MarkApplied
  BY <1>19
  DEF ActiveIsScheduled, Active, MarkApplied, reconcileVars, slotVars
<1>20. CASE StopArbiter
  BY <1>20
  DEF ActiveIsScheduled, Active, Guards, AgentArbiterTypeOK, StopArbiter, reconcileVars
<1>21. CASE UNCHANGED agentArbiterVars
  BY <1>21
  DEF ActiveIsScheduled, Active, agentArbiterVars
<1>22. QED
  BY <1>1, <1>2, <1>3, <1>4, <1>5, <1>6, <1>7, <1>8, <1>9, <1>10, <1>11, <1>12, <1>13, <1>14,
     <1>15, <1>16, <1>17, <1>18, <1>19, <1>20, <1>21
  DEF AgentArbiterNext, ReconciliationStep, ArbiterStep

\* A step keeps a state that was there.
LEMMA StepKeepsState ==
    ASSUME AgentArbiterTypeOK, StateIsKept, ApplyShape, [AgentArbiterNext]_agentArbiterVars
    PROVE  StateIsKept'
<1> USE ArbiterAssumption
<1>1. ASSUME NEW state \in DesiredState, SetState(state) PROVE StateIsKept'
  BY <1>1
  DEF StateIsKept, SetState, applyVars, slotVars
<1>2. CASE UpdateStatus
  BY <1>2
  DEF StateIsKept, UpdateStatus, reconcileVars, applyVars
<1>3. ASSUME NEW r \in Request, GenerateResponses(r) PROVE StateIsKept'
  BY <1>3
  DEF StateIsKept, GenerateResponses, reconcileVars, applyVars
<1>4. ASSUME NEW r \in Request, Complete(r) PROVE StateIsKept'
  BY <1>4
  DEF StateIsKept, Complete, reconcileVars, applyVars
<1>5. CASE Shutdown
  BY <1>5
  DEF StateIsKept, Shutdown, reconcileVars, applyVars, slotVars
<1>6. CASE ReceiveDesiredState
  BY <1>6
  DEF StateIsKept, AgentArbiterTypeOK, DesiredState, ReceiveDesiredState, applyVars, slotVars
<1>7. CASE RetryConversion
  BY <1>7
  DEF StateIsKept, RetryConversion, applyVars, slotVars
<1>8. CASE FailConversion
  BY <1>8
  DEF StateIsKept, FailConversion, applyVars, slotVars
<1>9. CASE FinishConversion
  BY <1>9
  DEF StateIsKept, FinishConversion, slotVars
<1>10. CASE RetryApply
  BY <1>10
  DEF StateIsKept, RetryApply, reconcileVars, slotVars, BeginApply
<1>11. CASE ReceiveApplicableState
  BY <1>11
  DEF StateIsKept, ReceiveApplicableState, reconcileVars, slotVars, BeginApply
<1>12. ASSUME NEW r \in Request, ForwardCommand(r) PROVE StateIsKept'
  BY <1>12
  DEF StateIsKept, ForwardCommand, reconcileVars, applyVars
<1>13. CASE DrainInFlightRequests
  BY <1>13
  DEF StateIsKept, DrainInFlightRequests, reconcileVars, slotVars
<1>14. CASE ShutdownArbiterHandle
  BY <1>14
  DEF StateIsKept, ShutdownArbiterHandle, reconcileVars, EndScheduler
<1>15. CASE Reset
  BY <1>15
  DEF StateIsKept, Reset, reconcileVars
<1>16. CASE SpawnScheduler
  BY <1>16
  DEF StateIsKept, ApplyShape, SpawnScheduler, reconcileVars
<1>17. CASE SpawnFails
  BY <1>17
  DEF StateIsKept, SpawnFails, reconcileVars, slotVars
<1>18. CASE SpawnCancelled
  BY <1>18
  DEF StateIsKept, SpawnCancelled, reconcileVars, slotVars
<1>19. CASE MarkApplied
  BY <1>19
  DEF StateIsKept, MarkApplied, reconcileVars, slotVars
<1>20. CASE StopArbiter
  BY <1>20
  DEF StateIsKept, StopArbiter, reconcileVars
<1>21. CASE UNCHANGED agentArbiterVars
  BY <1>21
  DEF StateIsKept, agentArbiterVars
<1>22. QED
  BY <1>1, <1>2, <1>3, <1>4, <1>5, <1>6, <1>7, <1>8, <1>9, <1>10, <1>11, <1>12, <1>13, <1>14,
     <1>15, <1>16, <1>17, <1>18, <1>19, <1>20, <1>21
  DEF AgentArbiterNext, ReconciliationStep, ArbiterStep

\* A step keeps the shape of apply_state.
LEMMA StepKeepsShape ==
    ASSUME AgentArbiterTypeOK, ApplyShape, StateIsKept, [AgentArbiterNext]_agentArbiterVars
    PROVE  ApplyShape'
<1> USE ArbiterAssumption
<1>1. ASSUME NEW state \in DesiredState, SetState(state) PROVE ApplyShape'
  BY <1>1
  DEF ApplyShape, SetState, applyVars, slotVars
<1>2. CASE UpdateStatus
  BY <1>2
  DEF ApplyShape, UpdateStatus, reconcileVars, applyVars
<1>3. ASSUME NEW r \in Request, GenerateResponses(r) PROVE ApplyShape'
  BY <1>3
  DEF ApplyShape, GenerateResponses, reconcileVars, applyVars
<1>4. ASSUME NEW r \in Request, Complete(r) PROVE ApplyShape'
  BY <1>4
  DEF ApplyShape, Complete, reconcileVars, applyVars
<1>5. CASE Shutdown
  BY <1>5
  DEF ApplyShape, Shutdown, reconcileVars, applyVars, slotVars
<1>6. CASE ReceiveDesiredState
  BY <1>6
  DEF ApplyShape, ReceiveDesiredState, applyVars, slotVars
<1>7. CASE RetryConversion
  BY <1>7
  DEF ApplyShape, RetryConversion, applyVars, slotVars
<1>8. CASE FailConversion
  BY <1>8
  DEF ApplyShape, FailConversion, applyVars, slotVars
<1>9. CASE FinishConversion
  BY <1>9
  DEF ApplyShape, FinishConversion, slotVars
<1>10. CASE RetryApply
  BY <1>10
  DEF ApplyShape, ShouldTryToApply, RetryApply, reconcileVars, slotVars, BeginApply
<1>11. CASE ReceiveApplicableState
  BY <1>11
  DEF ApplyShape, ReceiveApplicableState, reconcileVars, slotVars, BeginApply
<1>12. ASSUME NEW r \in Request, ForwardCommand(r) PROVE ApplyShape'
  BY <1>12
  DEF ApplyShape, ForwardCommand, reconcileVars, applyVars
<1>13. CASE DrainInFlightRequests
  BY <1>13
  DEF ApplyShape, DrainInFlightRequests, reconcileVars, slotVars
<1>14. CASE ShutdownArbiterHandle
  BY <1>14
  DEF ApplyShape, ShutdownArbiterHandle, reconcileVars, EndScheduler
<1>15. CASE Reset
  BY <1>15
  DEF ApplyShape, AgentArbiterTypeOK, DesiredState, Reset, reconcileVars
<1>16. CASE SpawnScheduler
  BY <1>16
  DEF ApplyShape, SpawnScheduler, reconcileVars
<1>17. CASE SpawnFails
  BY <1>17
  DEF ApplyShape, SpawnFails, reconcileVars, slotVars
<1>18. CASE SpawnCancelled
  BY <1>18
  DEF ApplyShape, SpawnCancelled, reconcileVars, slotVars
<1>19. CASE MarkApplied
  BY <1>19
  DEF ApplyShape, MarkApplied, reconcileVars, slotVars
<1>20. CASE StopArbiter
  BY <1>20
  DEF ApplyShape, StopArbiter, reconcileVars
<1>21. CASE UNCHANGED agentArbiterVars
  BY <1>21
  DEF ApplyShape, agentArbiterVars
<1>22. QED
  BY <1>1, <1>2, <1>3, <1>4, <1>5, <1>6, <1>7, <1>8, <1>9, <1>10, <1>11, <1>12, <1>13, <1>14,
     <1>15, <1>16, <1>17, <1>18, <1>19, <1>20, <1>21
  DEF AgentArbiterNext, ReconciliationStep, ArbiterStep

\* A step keeps that what is applied runs.
LEMMA StepKeepsApplied ==
    ASSUME AgentArbiterTypeOK, ApplyShape, AppliedIsRunning, [AgentArbiterNext]_agentArbiterVars
    PROVE  AppliedIsRunning'
<1>1. ASSUME NEW state \in DesiredState, SetState(state) PROVE AppliedIsRunning'
  BY <1>1
  DEF AppliedIsRunning, ApplyShape, SetState, applyVars, slotVars
<1>2. CASE UpdateStatus
  BY <1>2
  DEF AppliedIsRunning, ApplyShape, UpdateStatus, reconcileVars, applyVars
<1>3. ASSUME NEW r \in Request, GenerateResponses(r) PROVE AppliedIsRunning'
  BY <1>3
  DEF AppliedIsRunning, ApplyShape, GenerateResponses, reconcileVars, applyVars
<1>4. ASSUME NEW r \in Request, Complete(r) PROVE AppliedIsRunning'
  BY <1>4
  DEF AppliedIsRunning, ApplyShape, Complete, reconcileVars, applyVars
<1>5. CASE Shutdown
  BY <1>5
  DEF AppliedIsRunning, ApplyShape, Shutdown, reconcileVars, applyVars, slotVars
<1>6. CASE ReceiveDesiredState
  BY <1>6
  DEF AppliedIsRunning, ApplyShape, ReceiveDesiredState, applyVars, slotVars
<1>7. CASE RetryConversion
  BY <1>7
  DEF AppliedIsRunning, ApplyShape, RetryConversion, applyVars, slotVars
<1>8. CASE FailConversion
  BY <1>8
  DEF AppliedIsRunning, ApplyShape, FailConversion, applyVars, slotVars
<1>9. CASE FinishConversion
  BY <1>9
  DEF AppliedIsRunning, ApplyShape, FinishConversion, slotVars
<1>10. CASE RetryApply
  BY <1>10
  DEF AppliedIsRunning, ApplyShape, RetryApply, reconcileVars, slotVars, BeginApply
<1>11. CASE ReceiveApplicableState
  BY <1>11
  DEF AppliedIsRunning, ApplyShape, ReceiveApplicableState, reconcileVars, slotVars, BeginApply
<1>12. ASSUME NEW r \in Request, ForwardCommand(r) PROVE AppliedIsRunning'
  BY <1>12
  DEF AppliedIsRunning, ApplyShape, ForwardCommand, reconcileVars, applyVars
<1>13. CASE DrainInFlightRequests
  BY <1>13
  DEF AppliedIsRunning, ApplyShape, DrainInFlightRequests, reconcileVars, slotVars
<1>14. CASE ShutdownArbiterHandle
  BY <1>14
  DEF AppliedIsRunning, ApplyShape, ShutdownArbiterHandle, reconcileVars, EndScheduler
<1>15. CASE Reset
  BY <1>15
  DEF AppliedIsRunning, ApplyShape, Reset, reconcileVars
<1>16. CASE SpawnScheduler
  BY <1>16
  DEF AppliedIsRunning, ApplyShape, SpawnScheduler, reconcileVars
<1>17. CASE SpawnFails
  BY <1>17
  DEF AppliedIsRunning, ApplyShape, SpawnFails, reconcileVars, slotVars
<1>18. CASE SpawnCancelled
  BY <1>18
  DEF AppliedIsRunning, ApplyShape, SpawnCancelled, reconcileVars, slotVars
<1>19. CASE MarkApplied
  BY <1>19
  DEF AppliedIsRunning, ApplyShape, MarkApplied, reconcileVars, slotVars
<1>20. CASE StopArbiter
  BY <1>20
  DEF AppliedIsRunning, ApplyShape, StopArbiter, reconcileVars
<1>21. CASE UNCHANGED agentArbiterVars
  BY <1>21
  DEF AppliedIsRunning, ApplyShape, agentArbiterVars
<1>22. QED
  BY <1>1, <1>2, <1>3, <1>4, <1>5, <1>6, <1>7, <1>8, <1>9, <1>10, <1>11, <1>12, <1>13, <1>14,
     <1>15, <1>16, <1>17, <1>18, <1>19, <1>20, <1>21
  DEF AgentArbiterNext, ReconciliationStep, ArbiterStep

\* A step keeps that slots are offered by a scheduler.
LEMMA StepKeepsSlots ==
    ASSUME AgentArbiterTypeOK, ApplyShape, StateIsKept, SlotsOnlyWithScheduler,
           [AgentArbiterNext]_agentArbiterVars
    PROVE  SlotsOnlyWithScheduler'
<1> USE ArbiterAssumption
<1>1. ASSUME NEW state \in DesiredState, SetState(state) PROVE SlotsOnlyWithScheduler'
  BY <1>1
  DEF SlotsOnlyWithScheduler, SetState, applyVars, slotVars
<1>2. CASE UpdateStatus
  BY <1>2
  DEF SlotsOnlyWithScheduler, UpdateStatus, reconcileVars, applyVars
<1>3. ASSUME NEW r \in Request, GenerateResponses(r) PROVE SlotsOnlyWithScheduler'
  BY <1>3
  DEF SlotsOnlyWithScheduler, GenerateResponses, reconcileVars, applyVars
<1>4. ASSUME NEW r \in Request, Complete(r) PROVE SlotsOnlyWithScheduler'
  BY <1>4
  DEF SlotsOnlyWithScheduler, Complete, reconcileVars, applyVars
<1>5. CASE Shutdown
  BY <1>5
  DEF SlotsOnlyWithScheduler, Shutdown, reconcileVars, applyVars, slotVars
<1>6. CASE ReceiveDesiredState
  BY <1>6
  DEF SlotsOnlyWithScheduler, ReceiveDesiredState, applyVars, slotVars
<1>7. CASE RetryConversion
  BY <1>7
  DEF SlotsOnlyWithScheduler, RetryConversion, applyVars, slotVars
<1>8. CASE FailConversion
  BY <1>8
  DEF SlotsOnlyWithScheduler, FailConversion, applyVars, slotVars
<1>9. CASE FinishConversion
  BY <1>9
  DEF SlotsOnlyWithScheduler, FinishConversion, slotVars
<1>10. CASE RetryApply
  BY <1>10
  DEF SlotsOnlyWithScheduler, RetryApply, reconcileVars, slotVars, BeginApply
<1>11. CASE ReceiveApplicableState
  BY <1>11
  DEF SlotsOnlyWithScheduler, ReceiveApplicableState, reconcileVars, slotVars, BeginApply
<1>12. ASSUME NEW r \in Request, ForwardCommand(r) PROVE SlotsOnlyWithScheduler'
  BY <1>12
  DEF SlotsOnlyWithScheduler, ForwardCommand, reconcileVars, applyVars
<1>13. CASE DrainInFlightRequests
  BY <1>13
  DEF SlotsOnlyWithScheduler, DrainInFlightRequests, reconcileVars, slotVars
<1>14. CASE ShutdownArbiterHandle
  BY <1>14
  DEF SlotsOnlyWithScheduler, StateIsKept, ShutdownArbiterHandle, reconcileVars, EndScheduler
<1>15. CASE Reset
  BY <1>15
  DEF SlotsOnlyWithScheduler, Reset, reconcileVars
<1>16. CASE SpawnScheduler
  BY <1>16
  DEF SlotsOnlyWithScheduler, ApplyShape, SpawnScheduler, reconcileVars
<1>17. CASE SpawnFails
  BY <1>17
  DEF SlotsOnlyWithScheduler, ApplyShape, SpawnFails, reconcileVars, slotVars
<1>18. CASE SpawnCancelled
  BY <1>18
  DEF SlotsOnlyWithScheduler, SpawnCancelled, reconcileVars, slotVars
<1>19. CASE MarkApplied
  BY <1>19
  DEF SlotsOnlyWithScheduler, MarkApplied, reconcileVars, slotVars
<1>20. CASE StopArbiter
  BY <1>20
  DEF SlotsOnlyWithScheduler, StopArbiter, reconcileVars
<1>21. CASE UNCHANGED agentArbiterVars
  BY <1>21
  DEF SlotsOnlyWithScheduler, agentArbiterVars
<1>22. QED
  BY <1>1, <1>2, <1>3, <1>4, <1>5, <1>6, <1>7, <1>8, <1>9, <1>10, <1>11, <1>12, <1>13, <1>14,
     <1>15, <1>16, <1>17, <1>18, <1>19, <1>20, <1>21
  DEF AgentArbiterNext, ReconciliationStep, ArbiterStep

\* A step keeps that a scheduler is torn down when it is drained.
LEMMA StepKeepsDrained ==
    ASSUME AgentArbiterTypeOK, CountIsExact, ActiveIsScheduled, DrainedBeforeTeardown,
           [AgentArbiterNext]_agentArbiterVars
    PROVE  DrainedBeforeTeardown'
<1>0. slots_processing <= 0 /\ ~wiped => Active = {}
  <2>1. SUFFICES ASSUME slots_processing <= 0, ~wiped PROVE Active = {}
    OBVIOUS
  <2>2. Cardinality(Guards) = 0
    BY <2>1, GuardsAreFinite DEF CountIsExact
  <2>3. Guards = {}
    BY <2>2, GuardsAreFinite, FS_EmptySet
  <2>4. QED
    BY <2>3 DEF Guards
<1>1. ASSUME NEW state \in DesiredState, SetState(state) PROVE DrainedBeforeTeardown'
  BY <1>1
  DEF DrainedBeforeTeardown, Active, SetState, applyVars, slotVars
<1>2. CASE UpdateStatus
  BY <1>2
  DEF DrainedBeforeTeardown, Active, UpdateStatus, reconcileVars, applyVars
<1>3. ASSUME NEW r \in Request, GenerateResponses(r) PROVE DrainedBeforeTeardown'
  BY <1>3
  DEF DrainedBeforeTeardown, Active, AgentArbiterTypeOK, GenerateResponses, reconcileVars, applyVars
<1>4. ASSUME NEW r \in Request, Complete(r) PROVE DrainedBeforeTeardown'
  BY <1>4
  DEF DrainedBeforeTeardown, Active, AgentArbiterTypeOK, Complete, reconcileVars, applyVars
<1>5. CASE Shutdown
  BY <1>5
  DEF DrainedBeforeTeardown, Active, Shutdown, reconcileVars, applyVars, slotVars
<1>6. CASE ReceiveDesiredState
  BY <1>6
  DEF DrainedBeforeTeardown, Active, ReceiveDesiredState, applyVars, slotVars
<1>7. CASE RetryConversion
  BY <1>7
  DEF DrainedBeforeTeardown, Active, RetryConversion, applyVars, slotVars
<1>8. CASE FailConversion
  BY <1>8
  DEF DrainedBeforeTeardown, Active, FailConversion, applyVars, slotVars
<1>9. CASE FinishConversion
  BY <1>9
  DEF DrainedBeforeTeardown, Active, FinishConversion, slotVars
<1>10. CASE RetryApply
  BY <1>10
  DEF DrainedBeforeTeardown, Active, ActiveIsScheduled, RetryApply, reconcileVars, slotVars, BeginApply
<1>11. CASE ReceiveApplicableState
  BY <1>11
  DEF DrainedBeforeTeardown, Active, ActiveIsScheduled, ReceiveApplicableState, reconcileVars, slotVars, BeginApply
<1>12. ASSUME NEW r \in Request, ForwardCommand(r) PROVE DrainedBeforeTeardown'
  BY <1>12
  DEF DrainedBeforeTeardown, Active, ForwardCommand, reconcileVars, applyVars
<1>13. CASE DrainInFlightRequests
  BY <1>13, <1>0
  DEF DrainedBeforeTeardown, Active, DrainInFlightRequests, reconcileVars, slotVars
<1>14. CASE ShutdownArbiterHandle
  BY <1>14
  DEF DrainedBeforeTeardown, Active, ShutdownArbiterHandle, reconcileVars, EndScheduler
<1>15. CASE Reset
  BY <1>15
  DEF DrainedBeforeTeardown, Active, Reset, reconcileVars
<1>16. CASE SpawnScheduler
  BY <1>16
  DEF DrainedBeforeTeardown, Active, SpawnScheduler, reconcileVars
<1>17. CASE SpawnFails
  BY <1>17
  DEF DrainedBeforeTeardown, Active, SpawnFails, reconcileVars, slotVars
<1>18. CASE SpawnCancelled
  BY <1>18
  DEF DrainedBeforeTeardown, Active, SpawnCancelled, reconcileVars, slotVars
<1>19. CASE MarkApplied
  BY <1>19
  DEF DrainedBeforeTeardown, Active, MarkApplied, reconcileVars, slotVars
<1>20. CASE StopArbiter
  BY <1>20
  DEF DrainedBeforeTeardown, Active, StopArbiter, reconcileVars
<1>21. CASE UNCHANGED agentArbiterVars
  BY <1>21
  DEF DrainedBeforeTeardown, Active, agentArbiterVars
<1>22. QED
  BY <1>1, <1>2, <1>3, <1>4, <1>5, <1>6, <1>7, <1>8, <1>9, <1>10, <1>11, <1>12, <1>13, <1>14,
     <1>15, <1>16, <1>17, <1>18, <1>19, <1>20, <1>21
  DEF AgentArbiterNext, ReconciliationStep, ArbiterStep

-----------------------------------------------------------------------------
\* An agent starts without a state, a scheduler and requests.
LEMMA ArbiterStart == AgentArbiterInit => ArbiterInv
<1> SUFFICES ASSUME AgentArbiterInit PROVE ArbiterInv
  OBVIOUS
<1>1. Guards = {} /\ Active = {}
  BY DEF AgentArbiterInit, Guards, Queued, Active
<1>2. Cardinality({}) = 0
  BY FS_EmptySet
<1>3. <<>> \in Seq(DesiredState)
  OBVIOUS
<1>4. AgentArbiterTypeOK
  <2>1. desired_rx \in Seq(DesiredState)
    BY <1>3 DEF AgentArbiterInit
  <2>2. /\ converted \in BOOLEAN /\ converting \in BOOLEAN /\ changed \in BOOLEAN
        /\ shutdown \in BOOLEAN /\ wiped \in BOOLEAN
    BY Zenon DEF AgentArbiterInit
  <2>3. /\ desired \in DesiredState \cup {NoAgentState} /\ holder \in DesiredState \cup {NoAgentState}
        /\ current \in DesiredState \cup {NoAgentState} /\ last \in DesiredState \cup {NoAgentState}
        /\ scheduler \in AgentState \cup {NoAgentState}
    BY DEF AgentArbiterInit
  <2>4. /\ slots_processing \in Int /\ slots_total \in {0, DesiredSlots}
        /\ known_total \in {0, DesiredSlots} /\ sent \in 0 .. MaxDesired
    BY ArbiterAssumption DEF AgentArbiterInit
  <2>5. request \in [Request -> {"new", "queued", "active", "completed", "dropped"}]
    BY DEF AgentArbiterInit
  <2>6. /\ arbiter \in {"select", "drain", "teardown", "reset", "spawn", "mark", "stopped"}
        /\ status \in Statuses
    BY DEF AgentArbiterInit, Statuses
  <2>7. QED
    BY <2>1, <2>2, <2>3, <2>4, <2>5, <2>6, Zenon DEF AgentArbiterTypeOK
<1>5. CountIsExact /\ ActiveIsScheduled /\ DrainedBeforeTeardown
  BY <1>1, <1>2 DEF AgentArbiterInit, CountIsExact, ActiveIsScheduled, DrainedBeforeTeardown
<1>6. StateIsKept /\ ApplyShape /\ AppliedIsRunning /\ SlotsOnlyWithScheduler
  BY DEF AgentArbiterInit, StateIsKept, ApplyShape, AppliedIsRunning, SlotsOnlyWithScheduler
<1>7. QED
  BY <1>4, <1>5, <1>6 DEF ArbiterInv

\* Every step of the agent keeps the invariant.
LEMMA ArbiterKeeps == ArbiterInv /\ [AgentArbiterNext]_agentArbiterVars => ArbiterInv'
BY StepKeepsTypes, StepKeepsCount, StepKeepsActive, StepKeepsState, StepKeepsShape,
   StepKeepsApplied, StepKeepsSlots, StepKeepsDrained
DEF ArbiterInv

\* The invariant holds in every state, whatever the fairness.
THEOREM ArbiterIsSound == AgentArbiterFairSpec => []ArbiterInv
BY ArbiterStart, ArbiterKeeps, PTL DEF AgentArbiterFairSpec

\* A swap of the model is clean, for any number of requests, models and slots: what
\* is marked applied runs, slots are offered by a scheduler only, none is counted
\* without a request, and no request is interrupted (apply_state,
\* drain_in_flight_requests, SlotGuard).
THEOREM SwapsAreClean == AgentArbiterFairSpec => []SwapIsClean
<1>1. ArbiterInv => SwapIsClean
  BY DEF ArbiterInv, SwapIsClean, CountIsExact, NoPhantomSlots
<1>2. QED
  BY <1>1, ArbiterIsSound, PTL

-----------------------------------------------------------------------------
(***************************************************************************)
(* The state database.                                                     *)
(***************************************************************************)

\* Nothing is stored, running or known at first.
LEMMA InitIInv == Init => IInv
<1> SUFFICES ASSUME Init PROVE IInv OBVIOUS
<1>1. TypeOK
  <2>1. crashes \in 0 .. MaxCrashes
    BY StateDatabaseAssumption DEF StateDatabaseAssumption, Init
  <2>2. QED BY <2>1, Zenon DEF Init, TypeOK, Contents, Places
<1>2. \A o \in Op : pc[o] = "idle" /\ lock # o
  BY StateDatabaseAssumption DEF StateDatabaseAssumption, Init
<1>3. LockHeld /\ HolderWrote /\ DownIsIdle
  BY <1>2 DEF LockHeld, HolderWrote, DownIsIdle
<1>4. UntouchedIsKnown BY DEF Init, UntouchedIsKnown
<1>5. QED BY <1>1, <1>3, <1>4 DEF IInv

\* The start reads the file before any request is served.
LEMMA StartKeeps == IInv /\ Start => IInv'
<1> SUFFICES ASSUME IInv, Start PROVE IInv' OBVIOUS
<1>1. TypeOK'
  BY StateDatabaseAssumption
     DEF StateDatabaseAssumption, IInv, TypeOK, Contents, Start, opVars
<1>2. LockHeld' /\ HolderWrote' /\ DownIsIdle'
  BY DEF IInv, TypeOK, LockHeld, HolderWrote, DownIsIdle, Start, opVars
<1>3. UntouchedIsKnown' BY DEF Start, UntouchedIsKnown, KnownOrBehind
<1>4. QED BY <1>1, <1>2, <1>3 DEF IInv

\* A balancer that does not start leaves a file behind, and nothing else.
LEMMA StartFailsKeeps ==
    ASSUME IInv, NEW contents \in {Empty, Garbled, Default}, StartFails(contents)
    PROVE  IInv'
<1>1. TypeOK'
  BY DEF IInv, TypeOK, Contents, StartFails, opVars
<1>2. LockHeld' /\ DownIsIdle'
  BY DEF IInv, LockHeld, DownIsIdle, StartFails, opVars
<1>3. HolderWrote'
  BY DEF IInv, HolderWrote, DownIsIdle, StartFails, opVars
<1>4. UntouchedIsKnown' BY DEF StartFails, UntouchedIsKnown
<1>5. QED BY <1>1, <1>2, <1>3, <1>4 DEF IInv

\* Before it has the lock, a request touches neither the file nor what is known.
LEMMA BeforeTheLock ==
    ASSUME NEW o \in Op, IInv,
           (\E state \in State \cup {None} : Arrive(o, state)) \/ ReadSchemaFromFile(o)
    PROVE  IInv'
<1>1. TypeOK'
  BY DEF IInv, TypeOK, Contents, Places, Arrive, ReadSchemaFromFile
<1>2. UNCHANGED <<file, lock, known, up, behind>>
  BY DEF Arrive, ReadSchemaFromFile
<1>3. \A other \in Op : other # o =>
        pc'[other] = pc[other] /\ schema'[other] = schema[other]
  BY DEF IInv, TypeOK, Arrive, ReadSchemaFromFile
<1>4. /\ pc[o] \in {"idle", "read"}
      /\ pc'[o] \in {"read", "lock", "done", "failed"}
      /\ pc'[o] = "lock" => schema'[o] \in State \cup {Default}
  BY DEF IInv, TypeOK, Arrive, ReadSchemaFromFile
<1>5. LockHeld' BY <1>2, <1>3, <1>4 DEF IInv, LockHeld
<1>6. HolderWrote' BY <1>2, <1>3, <1>4 DEF IInv, HolderWrote
<1>7. DownIsIdle'
  BY <1>2, <1>3, <1>4 DEF IInv, DownIsIdle, Arrive, ReadSchemaFromFile
<1>8. UntouchedIsKnown'
  <2>1. behind # None => behind \in Op BY DEF IInv, TypeOK
  <2>2. KnownOrBehind => KnownOrBehind'
    BY <1>2, <1>3, <1>4, <2>1 DEF KnownOrBehind
  <2>3. QED BY <1>2, <1>3, <1>4, <2>2 DEF IInv, UntouchedIsKnown
<1>9. QED BY <1>1, <1>5, <1>6, <1>7, <1>8 DEF IInv

\* The lock is taken by one request when no other is inside store_schema, and
\* its holder alone writes.
LEMMA UnderTheLock ==
    ASSUME NEW o \in Op, IInv, AcquireLock(o) \/ CreateFile(o) \/ WriteSchema(o)
    PROVE  IInv'
<1>1. TypeOK'
  BY DEF IInv, TypeOK, Contents, Places, HolderWrote, AcquireLock, CreateFile, WriteSchema
<1>2. UNCHANGED <<known, up, behind, schema>>
  BY DEF AcquireLock, CreateFile, WriteSchema
<1>3. \A other \in Op : other # o => pc'[other] = pc[other]
  BY DEF IInv, TypeOK, AcquireLock, CreateFile, WriteSchema
<1>4. /\ lock' = o
      /\ lock \in {o, None}
      /\ pc'[o] \in {"create", "write", "notify"}
      /\ pc[o] \in {"lock", "create", "write"}
      /\ pc'[o] = "notify" => file' = schema[o]
      /\ pc'[o] = "create" => pc[o] = "lock" /\ file' = file
  BY DEF IInv, TypeOK, LockHeld, AcquireLock, CreateFile, WriteSchema
<1>5. \A other \in Op : other # o => pc[other] \notin {"create", "write", "notify"}
  BY <1>4, StateDatabaseAssumption DEF StateDatabaseAssumption, IInv, LockHeld
<1>6. LockHeld' BY <1>3, <1>4, <1>5 DEF LockHeld
<1>7. HolderWrote' BY <1>2, <1>3, <1>4, <1>5 DEF IInv, HolderWrote
<1>8. DownIsIdle' BY <1>2, <1>3, <1>4 DEF IInv, DownIsIdle
<1>9. UntouchedIsKnown'
  <2>1. behind # None => behind \in Op BY DEF IInv, TypeOK
  <2>2. pc'[o] = "create" /\ KnownOrBehind => KnownOrBehind'
    BY <1>2, <1>3, <1>4, <2>1 DEF KnownOrBehind
  <2>3. QED BY <1>2, <1>3, <1>4, <1>5, <2>2 DEF IInv, UntouchedIsKnown
<1>10. QED BY <1>1, <1>6, <1>7, <1>8, <1>9 DEF IInv

\* The holder leaves with the broadcast made, or with a step of the store failed.
LEMMA ReleasingTheLock ==
    ASSUME NEW o \in Op, IInv,
           \/ Notify(o) \/ CreateFails(o) \/ SyncFails(o)
           \/ \E contents \in {Empty, Garbled} : WriteFails(o, contents)
    PROVE  IInv'
<1>1. TypeOK'
  <2>1. CASE Notify(o)
    BY <2>1 DEF IInv, TypeOK, Contents, Places, HolderWrote, Notify
  <2>2. CASE \E contents \in {Empty, Garbled} : WriteFails(o, contents)
    BY <2>2 DEF IInv, TypeOK, Contents, Places, WriteFails
  <2>3. CASE CreateFails(o) \/ SyncFails(o)
    BY <2>3 DEF IInv, TypeOK, Places, CreateFails, SyncFails
  <2>4. QED BY <2>1, <2>2, <2>3
<1>2. up' = up /\ lock' = None /\ lock = o
  BY DEF IInv, LockHeld, Notify, WriteFails, CreateFails, SyncFails
<1>3. \A other \in Op : other # o =>
        pc'[other] = pc[other] /\ schema'[other] = schema[other]
  BY DEF IInv, TypeOK, Notify, WriteFails, CreateFails, SyncFails
<1>4. /\ pc'[o] \in {"lock", "done", "failed"}
      /\ pc[o] \in {"create", "notify", "write"}
      /\ pc'[o] = "lock" => schema'[o] \in State \cup {Default}
  BY DEF IInv, TypeOK, Notify, WriteFails, CreateFails, SyncFails
<1>5. \A other \in Op : other # o => pc[other] \notin {"create", "write", "notify"}
  BY <1>2 DEF IInv, LockHeld
<1>6. LockHeld'
  BY <1>2, <1>3, <1>4, <1>5, StateDatabaseAssumption DEF StateDatabaseAssumption, LockHeld
<1>7. HolderWrote' BY <1>3, <1>4, <1>5 DEF IInv, HolderWrote
<1>8. DownIsIdle' BY <1>2, <1>3, <1>4 DEF IInv, DownIsIdle
<1>9. UntouchedIsKnown'
  <2>1. CASE Notify(o)
    BY <2>1 DEF IInv, HolderWrote, UntouchedIsKnown, KnownOrBehind, Notify
  <2>2. CASE \E contents \in {Empty, Garbled} : WriteFails(o, contents)
    BY <2>2, StateDatabaseAssumption
       DEF StateDatabaseAssumption, IInv, TypeOK, UntouchedIsKnown, KnownOrBehind, WriteFails
  <2>3. CASE SyncFails(o)
    BY <2>3, StateDatabaseAssumption
       DEF StateDatabaseAssumption, IInv, TypeOK, HolderWrote, UntouchedIsKnown, KnownOrBehind,
           SyncFails
  <2>4. CASE CreateFails(o)
    <3>1. behind # None => behind \in Op BY DEF IInv, TypeOK
    <3>2. pc[o] = "create" /\ UNCHANGED <<file, known, up, schema, behind>>
      BY <2>4 DEF CreateFails
    <3>3. up => KnownOrBehind
      BY <1>5, <3>2 DEF IInv, UntouchedIsKnown
    <3>4. KnownOrBehind => KnownOrBehind'
      BY <1>3, <3>1, <3>2 DEF KnownOrBehind
    <3>5. QED BY <3>2, <3>3, <3>4 DEF UntouchedIsKnown
  <2>5. QED BY <2>1, <2>2, <2>3, <2>4
<1>10. QED BY <1>1, <1>6, <1>7, <1>8, <1>9 DEF IInv

\* A crash ends every request and releases the lock.
LEMMA CrashKeeps == IInv /\ Crash => IInv'
<1> SUFFICES ASSUME IInv, Crash PROVE IInv' OBVIOUS
<1>1. TypeOK'
  <2>1. crashes' \in 0 .. MaxCrashes
    BY StateDatabaseAssumption DEF StateDatabaseAssumption, IInv, TypeOK, Crash
  <2>2. file' \in Contents /\ damaged' \in BOOLEAN
    BY DEF IInv, TypeOK, Contents, Crash
  <2>3. pc' \in [Op -> Places] BY DEF IInv, TypeOK, Places, Crash
  <2>4. QED BY <2>1, <2>2, <2>3 DEF IInv, TypeOK, Crash
<1>2. /\ ~up' /\ lock' = None
      /\ \A o \in Op : pc'[o] \in {"idle", "done", "failed"}
  BY DEF Crash
<1>3. LockHeld' /\ HolderWrote' /\ DownIsIdle' /\ UntouchedIsKnown'
  BY <1>2, StateDatabaseAssumption
     DEF StateDatabaseAssumption, LockHeld, HolderWrote, DownIsIdle, UntouchedIsKnown
<1>4. QED BY <1>1, <1>3 DEF IInv

\* Every step keeps the inductive invariant.
LEMMA NextIInv == IInv /\ [Next]_vars => IInv'
<1> SUFFICES ASSUME IInv, [Next]_vars PROVE IInv' OBVIOUS
<1>1. CASE Start BY <1>1, StartKeeps
<1>2. CASE \E o \in Op, state \in State \cup {None} : Arrive(o, state)
  BY <1>2, BeforeTheLock
<1>3. CASE \E o \in Op : OpStep(o)
  BY <1>3, BeforeTheLock, UnderTheLock, ReleasingTheLock DEF OpStep
<1>4. CASE Crash BY <1>4, CrashKeeps
<1>5. CASE UNCHANGED vars
  BY <1>5 DEF vars, IInv, TypeOK, LockHeld, HolderWrote, DownIsIdle, UntouchedIsKnown,
              KnownOrBehind
<1>6. CASE \E contents \in {Empty, Garbled, Default} : StartFails(contents)
  BY <1>6, StartFailsKeeps
<1>7. QED BY <1>1, <1>2, <1>3, <1>4, <1>5, <1>6 DEF Next

\* The state the agents are steered to is the state a restart would find
\* whenever no store is under way, or what the last store left when it failed, for any
\* number of concurrent GETs and PUTs, failures of any step of a store, and crashes.
THEOREM BroadcastIsStored == Spec => []KnownIsStored
<1>1. IInv => KnownIsStored BY DEF IInv, UntouchedIsKnown, KnownIsStored, Quiescent
<1>2. QED BY <1>1, InitIInv, NextIInv, PTL DEF Spec

-----------------------------------------------------------------------------
(***************************************************************************)
(* The propagation to the agents.                                          *)
(***************************************************************************)

PropagationSpec == PropagationInit /\ [][PropagationNext]_propagationVars

\* Nothing is left to send outside an iteration, and an iteration is under way
\* only for a state that is not converted.
IterationShape ==
    /\ unsent # {} => service = "sending"
    /\ service = "sending" => ~on_target
    /\ on_target => published = target

\* An agent that registers while no conversion touches it has read what the holder
\* still has.
InitialIsPublished ==
    \A a \in Agent :
        /\ agent[a] \in {"inserted", "setting"}
        /\ a \notin overlapped
        => /\ service # "sending"
           /\ agent[a] = "setting" => initial[a] = published

\* The iteration has told every agent it has passed by.
PassedIsTold ==
    \A a \in Agent :
        /\ agent[a] = "registered"
        /\ a \notin overlapped
        /\ a \notin unsent
        /\ service = "sending" \/ on_target
        => told[a] = target

PropagationInv ==
    /\ PropagationTypeOK
    /\ IterationShape
    /\ InitialIsPublished
    /\ PassedIsTold

\* Every variable of the propagation keeps its type in a step (the iteration never
\* holds an agent that has left the pool).
LEMMA PropagationTypeStep ==
    PropagationTypeOK /\ [PropagationNext]_propagationVars => PropagationTypeOK'
  <1> SUFFICES ASSUME PropagationTypeOK, [PropagationNext]_propagationVars
               PROVE  PropagationTypeOK'
      OBVIOUS
  <1> USE PropagationAssumption DEF PropagationTypeOK, Pool
  <1>1. ASSUME NEW state \in StoredState, Broadcast(state)
        PROVE  PropagationTypeOK'
      BY <1>1 DEF Broadcast, serviceVars
  <1>2. CASE ReceiveStoredState
    <2>1. broadcast # <<>> => Head(broadcast) \in StoredState /\ Tail(broadcast) \in Seq(StoredState)
        OBVIOUS
    <2> QED
        BY <1>2, <2>1 DEF ReceiveStoredState, BeginConversion, Registering
  <1>3. CASE RetrySending
      BY <1>3 DEF RetrySending, BeginConversion, Registering, channelVars
  <1>4. ASSUME NEW a \in Agent, SendDesiredState(a)
        PROVE  PropagationTypeOK'
      BY <1>4 DEF SendDesiredState, channelVars
  <1>5. ASSUME NEW a \in Agent, SendFails(a)
        PROVE  PropagationTypeOK'
      BY <1>5 DEF SendFails, channelVars
  <1>6. CASE PublishState
      BY <1>6 DEF PublishState, channelVars
  <1>7. ASSUME NEW a \in Agent, RegisterAgent(a)
        PROVE  PropagationTypeOK'
      BY <1>7 DEF RegisterAgent, channelVars
  <1>8. ASSUME NEW a \in Agent, GetAgentDesiredState(a)
        PROVE  PropagationTypeOK'
      BY <1>8 DEF GetAgentDesiredState, channelVars, serviceVars
  <1>9. ASSUME NEW a \in Agent, SetInitialState(a)
        PROVE  PropagationTypeOK'
      BY <1>9 DEF SetInitialState, channelVars, serviceVars
  <1>10. ASSUME NEW a \in Agent, CloseConnection(a)
         PROVE  PropagationTypeOK'
      BY <1>10 DEF CloseConnection, channelVars, serviceVars
  <1>11. ASSUME NEW a \in Agent, RemoveAgent(a)
         PROVE  PropagationTypeOK'
      BY <1>11 DEF RemoveAgent, channelVars
  <1>12. CASE UNCHANGED propagationVars
      BY <1>12 DEF propagationVars
  <1> QED
      BY <1>1, <1>2, <1>3, <1>4, <1>5, <1>6, <1>7, <1>8, <1>9, <1>10, <1>11, <1>12
      DEF PropagationNext, ServiceStep, ConnectionStep

\* Every step keeps what the iteration and the registrations have achieved.
LEMMA PropagationStep ==
    PropagationInv /\ [PropagationNext]_propagationVars => PropagationInv'
  <1> SUFFICES ASSUME PropagationInv, [PropagationNext]_propagationVars
               PROVE  (IterationShape /\ InitialIsPublished /\ PassedIsTold)'
      BY PropagationTypeStep DEF PropagationInv
  <1> USE PropagationAssumption
      DEF PropagationInv, PropagationTypeOK, IterationShape, InitialIsPublished, PassedIsTold
  <1>1. ASSUME NEW state \in StoredState, Broadcast(state)
        PROVE  (IterationShape /\ InitialIsPublished /\ PassedIsTold)'
      BY <1>1 DEF Broadcast, serviceVars
  <1>2. CASE ReceiveStoredState
      BY <1>2 DEF ReceiveStoredState, BeginConversion, Registering, Pool
  <1>3. CASE RetrySending
      BY <1>3 DEF RetrySending, BeginConversion, Registering, Pool, channelVars
  <1>4. ASSUME NEW a \in Agent, SendDesiredState(a)
        PROVE  (IterationShape /\ InitialIsPublished /\ PassedIsTold)'
      BY <1>4 DEF SendDesiredState, channelVars
  <1>5. ASSUME NEW a \in Agent, SendFails(a)
        PROVE  (IterationShape /\ InitialIsPublished /\ PassedIsTold)'
      BY <1>5 DEF SendFails, channelVars
  <1>6. CASE PublishState
      BY <1>6 DEF PublishState, channelVars
  <1>7. ASSUME NEW a \in Agent, RegisterAgent(a)
        PROVE  (IterationShape /\ InitialIsPublished /\ PassedIsTold)'
      BY <1>7 DEF RegisterAgent, channelVars
  <1>8. ASSUME NEW a \in Agent, GetAgentDesiredState(a)
        PROVE  (IterationShape /\ InitialIsPublished /\ PassedIsTold)'
      BY <1>8 DEF GetAgentDesiredState, channelVars, serviceVars
  <1>9. ASSUME NEW a \in Agent, SetInitialState(a)
        PROVE  (IterationShape /\ InitialIsPublished /\ PassedIsTold)'
      BY <1>9 DEF SetInitialState, channelVars, serviceVars
  <1>10. ASSUME NEW a \in Agent, CloseConnection(a)
         PROVE  (IterationShape /\ InitialIsPublished /\ PassedIsTold)'
      BY <1>10 DEF CloseConnection, channelVars, serviceVars
  <1>11. ASSUME NEW a \in Agent, RemoveAgent(a)
         PROVE  (IterationShape /\ InitialIsPublished /\ PassedIsTold)'
      BY <1>11 DEF RemoveAgent, channelVars
  <1>12. CASE UNCHANGED propagationVars
      BY <1>12 DEF propagationVars
  <1> QED
      BY <1>1, <1>2, <1>3, <1>4, <1>5, <1>6, <1>7, <1>8, <1>9, <1>10, <1>11, <1>12
      DEF PropagationNext, ServiceStep, ConnectionStep

\* Initially nothing is sent, read or published.
LEMMA PropagationStart == PropagationInit => PropagationInv
  <1> SUFFICES ASSUME PropagationInit PROVE PropagationInv
      OBVIOUS
  <1> USE PropagationAssumption DEF PropagationInit
  <1>1. PropagationTypeOK
    <2>1. broadcast \in Seq(StoredState)
        OBVIOUS
    <2>2. unsent \in SUBSET Pool /\ overlapped \in SUBSET Agent
        OBVIOUS
    <2>3. /\ agent \in [Agent -> {"absent", "inserted", "setting", "registered", "closed", "gone"}]
          /\ initial \in [Agent -> StoredState \cup {NoStoredState}]
          /\ told \in [Agent -> StoredState \cup {NoStoredState}]
        OBVIOUS
    <2>4. stores \in 0 .. MaxStores
        OBVIOUS
    <2> QED
        BY <2>1, <2>2, <2>3, <2>4 DEF PropagationTypeOK
  <1>2. IterationShape /\ InitialIsPublished /\ PassedIsTold
      BY DEF IterationShape, InitialIsPublished, PassedIsTold
  <1> QED
      BY <1>1, <1>2 DEF PropagationInv

\* What the propagation never leaves: its types, the shape of an iteration, and what
\* the iteration has passed by.
THEOREM PropagationIsSound == PropagationSpec => []PropagationInv
  BY PropagationStart, PropagationStep, PTL DEF PropagationSpec

\* Whatever agents register, close and leave while states are stored, converted and
\* tried again, a state that counts as converted was published and sent last to every
\* registered agent that no conversion met while it registered.
THEOREM ConvertedStateIsTold == PropagationSpec => []ConvertedIsTold
  <1>1. PropagationInv => ConvertedIsTold
      BY DEF PropagationInv, IterationShape, PassedIsTold, ConvertedIsTold
  <1> QED
      BY <1>1, PropagationIsSound, PTL

-----------------------------------------------------------------------------
(***************************************************************************)
(* The whole way.                                                          *)
(***************************************************************************)
\* The parts that a behaviour does not exercise are at rest in a typed state.
LEMMA WayStarts == DesiredStateInit => IInv /\ PropagationInv /\ ArbiterInv
<1> SUFFICES ASSUME DesiredStateInit PROVE PropagationInv
  BY InitIInv, ArbiterStart DEF DesiredStateInit
<1>1. CASE stage = "propagation"
  BY <1>1, PropagationStart DEF DesiredStateInit
<1>2. CASE stage # "propagation"
  <2>1. /\ broadcast = <<>> /\ lagged = FALSE /\ stores = 0 /\ unsent = {} /\ overlapped = {}
        /\ service = "stopped" /\ target \in StoredState
        /\ on_target = FALSE /\ published = NoStoredState
        /\ agent = [a \in Agent |-> "absent"]
        /\ initial = [a \in Agent |-> NoStoredState] /\ told = initial
    BY <1>2, PropagationAssumption DEF DesiredStateInit
  <2>2. broadcast \in Seq(StoredState) /\ stores \in 0 .. MaxStores
    BY <2>1, PropagationAssumption
  <2>3. /\ agent \in [Agent -> {"absent", "inserted", "setting", "registered", "closed", "gone"}]
        /\ initial \in [Agent -> StoredState \cup {NoStoredState}]
        /\ told \in [Agent -> StoredState \cup {NoStoredState}]
    BY <2>1
  <2>4. PropagationTypeOK
    BY <2>1, <2>2, <2>3, Zenon DEF PropagationTypeOK
  <2>5. IterationShape /\ InitialIsPublished /\ PassedIsTold
    BY <2>1 DEF IterationShape, InitialIsPublished, PassedIsTold
  <2>6. QED
    BY <2>4, <2>5 DEF PropagationInv
<1>3. QED
  BY <1>1, <1>2

\* The stages take their own steps.
LEMMA WayContinues ==
    /\ IInv /\ PropagationInv /\ ArbiterInv
    /\ [DesiredStateNext]_<<stage, vars, propagationVars, agentArbiterVars>>
    => IInv' /\ PropagationInv' /\ ArbiterInv'
<1>1. [DesiredStateNext]_<<stage, vars, propagationVars, agentArbiterVars>>
         => /\ [Next]_vars
            /\ [PropagationNext]_propagationVars
            /\ [AgentArbiterNext]_agentArbiterVars
  BY DEF DesiredStateNext
<1>2. QED
  BY <1>1, NextIInv, PropagationStep, ArbiterKeeps

\* On the whole way of a desired state, from the request that stores it to the model
\* that an agent runs, every variable has its type (StateDatabase, the
\* reconciliation service and the connections of the balancer, AgentArbiter).
THEOREM DesiredStateIsTyped == DesiredStateSpec => []DesiredStateTypeOK
<1>1. IInv /\ PropagationInv /\ ArbiterInv => DesiredStateTypeOK
  BY DEF IInv, PropagationInv, ArbiterInv, DesiredStateTypeOK
<1>2. QED
  BY <1>1, WayStarts, WayContinues, PTL DEF DesiredStateSpec
=============================================================================
