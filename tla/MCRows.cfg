CONSTANT N = 3
SPECIFICATION MCSpec
INVARIANTS DeliversSelectedInOrder FlagsAreExact CompleteUnlessFailed AtMostOneRowLost PanicOnlyAfterForeignClose
PROPERTIES ImplementsFilteredCursor DriverRowsReleased LoopEnds
CHECK_DEADLOCK FALSE
