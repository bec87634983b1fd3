\* The dispatch: two requests against two connections of one agent.  The
\* forwarding: two uses of one request id, one response and the terminal one each.
SPECIFICATION RequestsSpec
CONSTANTS
    a1 = a1
    Request = {r1, r2}
    Controller = {c1, c2}
    AgentId = {a1}
    IdOf <- IdOfController
    NoController = NoController
    MaxBuffered = 1
    MaxSlots = 1
    MaxAttempts = 2
    MaxTokens = 1
SYMMETRY RequestSymmetry
INVARIANTS
    RequestsTypeOK
    SlotConservation
    NoOversubscription
    BufferCounted
    NoLostWakeup
    Answered
    OwnResponsesInOrder
    SlotHeldWhileAgentWorks
CHECK_DEADLOCK FALSE
