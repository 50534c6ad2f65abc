SPECIFICATION FairSpec
CONSTANTS
  Files = {f1}
  Handlers = {h1, h2}
  MaxChanges = 4
  Nil = Nil
INVARIANTS
  StaleIsPending
  StampNotNewer
PROPERTIES
  Settles
CHECK_DEADLOCK FALSE
