SPECIFICATION FairSpec
CONSTANTS
    w1 = w1
    w2 = w2
    k1 = k1
    k2 = k2
    t1 = t1
    t2 = t2
    i1 = i1
    Windows = {w1, w2}
    Keys = {k1, k2}
    Tasks = {t1, t2}
    Calls = {i1}
    NoKey = NoKey
    NoWin = NoWin
    Bye = Bye
    MaxConns = 2
CONSTRAINT OneOverlap
INVARIANTS
    TypeOK
    OwnHostOnly
PROPERTIES
    OrphanEnds
    CallIsAnswered
    LiveIsNotOverwritten
