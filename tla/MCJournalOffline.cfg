SPECIFICATION Spec
CONSTANTS MaySeal = TRUE
INVARIANTS HeaderHasOneWriter ClosedIsClean
PROPERTIES ImplementsJournalDisk WriterReturns RotatedIsArchived
