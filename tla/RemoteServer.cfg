SPECIFICATION Spec
CONSTANTS
    MaxServers = 2
    MaxTokens = 2
    MaxConns = 3
    MaxEvents = 2
    MaxInvokes = 3
    ConnLimit = 2
    InvokeLimit = 2
    Capacity = 1
    ContextLimit = 1
    Budget = 4
CONSTRAINT Budgeted
INVARIANTS
    TypeOK
    ServedIsListed
    EachEventOnce
    ClosedContextHoldsNothing
CHECK_DEADLOCK FALSE
