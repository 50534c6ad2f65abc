SPECIFICATION MCSpec
CONSTANTS
    Calls = {c1, c2, c3, c4}
    Aliases = {sql}
    DriverNames = {sql, csv}
    MaxNames = 1
    MaxUnderWay = 2
    Loaders = {}
    First = First
    Nil = Nil
SYMMETRY Symmetry
CHECK_DEADLOCK FALSE
INVARIANTS
    RegisteredIsOpen
    LostNeedsOverlap
    UnloadLeavesNothing
