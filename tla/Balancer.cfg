\* The streams: up to three messages before the last one, up to three documents
\* for two agents.  The agent: three connections, one change of each kind, one
\* question.  The conversation: two turns.  The validator: three components.
SPECIFICATION BalancerSpec
CONSTANTS
    EmbeddingRequests <- MCEmbeddingRequests
    MaxMessages = 3
    MaxDocuments = 3
    MaxDivided = 4
    NBatch = 2
    Query = {q1}
    MaxEvents = 3
    MaxConnections = 2
    MaxQueued = 1
    Additions <- MCAdditions
    Settings <- MCSettings
    Answers <- MCAnswers
    MaxTurns = 2
    Documents <- MCDocuments
    Roots <- MCRoots
INVARIANTS
    BalancerTypeOK
    OpenAIIsCompatible
    SchemaIsClosed
    EmbeddingsAreWhole
PROPERTIES
    StreamEnds
    AgentIsSeen
CHECK_DEADLOCK FALSE
