SPECIFICATION MCSpec
CONSTANTS
  Requests = {r1, r2}
  Updates = {u1, u2}
  MaxVer = 2
  MaxProcs = 3
  MaxBesideTwice = 2
INVARIANTS
  ClosedOnlyInUpdate
  AloneIsServed
  NeverOlderThanStat
  CrashNeedsRival
CHECK_DEADLOCK FALSE
SYMMETRY Alike
