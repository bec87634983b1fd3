\* A request that generates while the image of another one is decoded.
SPECIFICATION SchedulerSpec
CONSTANTS
    Request = {r1, r2}
    Shutdown = Shutdown
    MaxSequences = 2
    NBatch = 2
    MaxPrompt = 1
    MaxTokens = 2
    MaxGain = 1
    MaxCells = 3
INVARIANTS
    HarvestedTokenSent
CHECK_DEADLOCK FALSE
