\* The desktop application: two runners, so that a kind is started again while
\* the first of it stops, or after it has; or one of each kind.  The web pages:
\* two agents, two requests, one submission, one fault.
SPECIFICATION InterfacesSpec
CONSTANTS
    MaxRunners = 2
    Agents = {a1, a2}
    Texts <- WebTexts
    PathEncoded <- EncodedText
    QueryEncoded <- EncodedText
    Authority <- WebAuthority
    SavedModels <- Balanced
    Typed <- Inputs
    MaxChanges = 1
    MaxFetches = 2
    MaxPuts = 1
    MaxEdits = 3
    MaxFaults = 1
INVARIANTS
    ScreensAreTrue
PROPERTIES
    ScreensMoveOn
CHECK_DEADLOCK FALSE
