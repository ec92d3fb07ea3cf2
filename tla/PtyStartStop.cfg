\* Two start attempts of one id by two callers; the first session writes.
SPECIFICATION Spec
CONSTANTS
    Ids = {t1}
    Callers = {c1, c2}
    MaxGen = 2
    MaxChunks = 1
    NoId = NoId
SYMMETRY Symmetry
CONSTRAINT FirstIsLate
INVARIANTS
    TypeOK
    NoLeakedChild
    SingleHolder
    ExitAnnouncedOnce
    DroppedOnlyAfterRemoval
