\* Esc with two calls in the queue.
SPECIFICATION Spec
CONSTANTS
    Msgs = {m1, m2, m3}
    NoMsg = NoMsg
    Convs = {v1}
    NoConv = NoConv
    MaxSends = 3
    MaxRecs = 1
    MaxRequests = 3
    MaxPrompts = 0
    MaxAsks = 1
INVARIANTS
    EscCancelsWaiting
CHECK_DEADLOCK FALSE
