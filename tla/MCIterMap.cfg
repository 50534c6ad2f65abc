CONSTANTS
  Ops = {o1, o2, o3}
  Keys = {k1, k2}
  Nil = Nil
SYMMETRY Symmetry
SPECIFICATION Spec
INVARIANTS EveryValueAccountedFor ReportedOnce ClosedMapIsEmpty
CHECK_DEADLOCK FALSE
