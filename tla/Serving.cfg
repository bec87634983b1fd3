\* Two requests against one connection.  One use of a request id and up to two
\* responses.  A balancer whose admin panel and StatsD reports are optional, with one
\* connection to a server, and an agent.
SPECIFICATION ServingSpec
CONSTANTS
    a1 = a1
    Request = {r1, r2}
    Controller = {c1}
    AgentId = {a1}
    IdOf <- IdOfController
    NoController = NoController
    MaxBuffered = 2
    MaxSlots = 1
    MaxAttempts = 1
    MaxTokens = 2
    Http = {"management", "web_admin_panel"}
    Streaming = {"management"}
    Reconciliation = {"reconciliation"}
    Reporting = {"statsd"}
    Always = {"management", "reconciliation"}
    OfAgent = {"reconciliation", "arbiter"}
    MaxConnections = 1
INVARIANTS
    LifeIsSound
PROPERTIES
    BufferedRequestServed
    ShutdownEnds
    ImplementsResponseStream
    StopReachesAgent
CHECK_DEADLOCK FALSE
