\* Two requests of each client library over one socket and the one that
\* replaces it, a body of two lines, and a cluster of two agents of which one
\* process or connection is lost.
SPECIFICATION Spec
CONSTANTS
    Request = {1,2}
    PoolSize = 1
    MaxConnections = 2
    MaxTokens = 1
    MaxDrops = 1
    MaxLines = 2
    MaxAgents = 2
    MaxTrouble = 1
INVARIANTS
    AnswerIsFaithful
    ChunkingIsInvisible
PROPERTIES
    CallsEnd
CHECK_DEADLOCK FALSE
