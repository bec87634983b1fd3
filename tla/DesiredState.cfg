\* The database: three GETs and PUTs of two states, one crash.  The propagation:
\* two agents, two states stored up to three times, a channel of two.  The
\* arbiter: two requests, two slots, up to three desired states.
SPECIFICATION DesiredStateSpec
CONSTANTS
    Op = {o1, o2, o3}
    State = {s1, s2}
    Default = Default
    None = None
    Empty = Empty
    Garbled = Garbled
    MaxCrashes = 1
    Agent = {a1, a2}
    StoredState = {t1, t2}
    NoStoredState = NoStoredState
    Capacity = 2
    MaxStores = 3
    Request = {r1, r2}
    AgentState = {m1, m2}
    NoModel = NoModel
    NoAgentState = NoAgentState
    DesiredSlots = 2
    MaxDesired = 3
INVARIANTS
    DesiredStateTypeOK
    KnownIsStored
    ConvertedIsTold
    SwapIsClean
PROPERTIES
    DesiredStateArrives
CHECK_DEADLOCK FALSE
