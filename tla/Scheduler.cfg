\* The scheduler: two requests on one or two sequences; a prompt may need two
\* batches.  A conversation: seven histories, three pieces.  The meter: windows of
\* up to three tokens.
SPECIFICATION AgentSpec
CONSTANTS
    Request = {r1, r2}
    Shutdown = Shutdown
    MaxSequences = 2
    NBatch = 2
    MaxPrompt = 2
    MaxTokens = 1
    MaxGain = 1
    MaxCells = 2
    Conversations <- Histories
    ResizeToFit = {0, 3}
    Piece <- Pieces
    ToolCalls <- Calls
    MaxHeld = 2
    MaxPieces = 3
    CompletionLimit = 2
    Nothing = Nothing
    MaxCount = 3
INVARIANTS
    AgentTypeOK
    CacheIsTracked
    AnswersAreWhole
    ConversationIsHandled
PROPERTIES
    StoppedRequestEnds
CHECK_DEADLOCK FALSE
