\* The download: two agents, a file that grows and then shrinks, two failures.
\* The loading: five desired states, two of them set, two failures, two slots.
SPECIFICATION ModelsSpec
CONSTANTS
    Agent = {a1, a2}
    None = None
    Length <- ServerLengths
    MaxFaults = 2
    Wanted <- WantedStates
    Malformed <- MalformedUrls
    NotConfigured = NotConfigured
    SlotsWanted = 2
    MaxWanted = 2
    MaxFailures = 2
INVARIANTS
    ModelsTypeOK
    CachedModelIsWhole
    StatusIsTrue
PROPERTIES
    ModelArrives
CHECK_DEADLOCK FALSE
