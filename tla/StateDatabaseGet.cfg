\* A GET and a PUT, no crash.
SPECIFICATION Spec
CONSTANTS
    Op = {o1, o2}
    State = {s1, s2}
    Default = Default
    None = None
    Empty = Empty
    Garbled = Garbled
    MaxCrashes = 0
INVARIANTS
    PutIsKept
CHECK_DEADLOCK FALSE
