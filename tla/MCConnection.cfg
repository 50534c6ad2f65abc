CONSTANTS
  Ops = {o1, o2}
  Drivers = {sql, csv}
  FileDrivers = {csv}
  Sources = {s1, s2}
  Nil = Nil
SPECIFICATION FairSpec
INVARIANTS CurrentPoolOpen NoLeakUnlessRaced NoStalePoolUnlessRaced UnreturnedConnections
PROPERTY CloseReleasesPools
CHECK_DEADLOCK FALSE
