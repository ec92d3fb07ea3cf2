\* Two calls whose turns ask the user, on one record.
SPECIFICATION FairSpec
CONSTANTS
    Msgs = {m1, m2}
    NoMsg = NoMsg
    Convs = {v1}
    NoConv = NoConv
    MaxSends = 2
    MaxRecs = 1
    MaxRequests = 1
    MaxPrompts = 2
    MaxAsks = 1
PROPERTIES
    SendSettles
CHECK_DEADLOCK FALSE
