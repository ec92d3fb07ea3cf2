\* Two calls, and a record that is replaced under them.
SPECIFICATION Spec
CONSTANTS
    Msgs = {m1, m2}
    NoMsg = NoMsg
    Convs = {v1}
    NoConv = NoConv
    MaxSends = 2
    MaxRecs = 2
    MaxRequests = 1
    MaxPrompts = 0
    MaxAsks = 1
SYMMETRY Symmetry
VIEW View
INVARIANTS
    TypeOK
    SerialTurns
    RetryFindsUnfinished
    InterruptHitsItsTurn
    HandleKept
    NoStrandedTurn
    StopIsNotAnError
    BusyIsShown
CHECK_DEADLOCK FALSE
