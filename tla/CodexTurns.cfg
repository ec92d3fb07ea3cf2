\* Two sessions and two callers; a second process or thread while one session
\* is there.
SPECIFICATION Spec
CONSTANTS
  Sessions = {s1, s2}
  Callers = {c1, c2}
  NoSession = NoSession
  NoCaller = NoCaller
  MaxTurns = 2
  MaxThreads = 2
  MaxConns = 2
  MaxAsks = 1
  MaxLocks = 1
  MaxEvents = 4
SYMMETRY Symmetric
CONSTRAINT Focused
INVARIANTS TypeOK NextTurnIsSafe OwnTurnIsOver AnsweredOnce
\* The renderer need not call.
CHECK_DEADLOCK FALSE
