CONSTANTS
  Calls = {c1, c2, c3}
  FirstCall = c1
  FirstName = n1
  FirstAddr = a1
  Names = {n1, n2}
  Addrs = {a1, a2}
  Nil = Nil
SPECIFICATION MCSpec
INVARIANTS MapHoldsLiveListeners SocketsReachable UnloadWaits
PROPERTY UnloadReturns
CHECK_DEADLOCK FALSE
