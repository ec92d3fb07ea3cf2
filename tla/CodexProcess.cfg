\* One session: a start and a send.
SPECIFICATION Spec
CONSTANTS
  Sessions = {s1}
  Callers = {c1}
  NoSession = NoSession
  NoCaller = NoCaller
  MaxTurns = 1
  MaxThreads = 1
  MaxConns = 2
  MaxAsks = 0
  MaxLocks = 0
  MaxEvents = 2
INVARIANT ReaperSparesTurns
\* The renderer need not call.
CHECK_DEADLOCK FALSE
