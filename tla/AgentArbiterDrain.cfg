\* One request, one slot, two desired states.
SPECIFICATION AgentArbiterFairSpec
CONSTANTS
    Request = {r1}
    AgentState = {m1, m2}
    NoModel = NoModel
    NoAgentState = NoAgentState
    DesiredSlots = 1
    MaxDesired = 2
PROPERTIES
    SwapCompletes
CHECK_DEADLOCK FALSE
