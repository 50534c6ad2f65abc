SPECIFICATION MCSpec
CONSTANTS
  r1 = r1
  r2 = r2
  c1 = c1
  c2 = c2
  Requests = {r1, r2}
  Children = {c1, c2}
  Queries = {q1}
  MaxTick = 1
  MaxMade = 3
  Nil = Nil
INVARIANTS
  ReadersClosed
  LostOnlyByChild
  ClosedIsBeingDeleted
  RunningIsRegistered
PROPERTIES
  Drains
CHECK_DEADLOCK FALSE
