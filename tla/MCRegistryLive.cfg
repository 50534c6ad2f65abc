SPECIFICATION MCFairSpec
CONSTANTS
    Calls = {c1, c2, c3}
    Aliases = {sql}
    DriverNames = {sql, csv}
    MaxNames = 1
    MaxUnderWay = 3
    Loaders = {c1}
    First = First
    Nil = Nil
CHECK_DEADLOCK FALSE
PROPERTY
    UnloadReturns
