\* Every command returns and every exit is noticed.
SPECIFICATION FairSpec
CONSTANTS
    Ids = {t1}
    Callers = {c1}
    MaxGen = 2
    MaxChunks = 0
    NoId = NoId
PROPERTIES
    CallReturns
    ExitNoticed
