\* Three calls, two processes, and a clock that outlasts the backoff.
SPECIFICATION Spec
CONSTANTS
    c1 = c1
    c2 = c2
    c3 = c3
    Calls = {c1, c2, c3}
    NoCall = NoCall
    MaxHandles = 2
    MaxIds = 2
    MaxTime = 2
    Limit = 2
    Window = 1
    Block = 1
SYMMETRY Symmetry
INVARIANTS
    TypeOK
    OwnReply
    NobodyIsForgotten
    NoStraySidecar
    SpawnsAreSpaced
PROPERTIES
    ImplementsRpc
CHECK_DEADLOCK FALSE
