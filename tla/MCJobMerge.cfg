SPECIFICATION FoldSpec
INVARIANT OrderIrrelevant
INVARIANT ConflictHasPair
CHECK_DEADLOCK FALSE
