CONSTANTS
  a = a
  b = b
  c = c
  None = None
  Units <- ABC
  Families <- AllFamilies
SPECIFICATION FairSpec
INVARIANT AnchorKept
INVARIANT RequirementsMet
INVARIANT ConflictsStopped
PROPERTY OrderVerified
PROPERTY Returns
CHECK_DEADLOCK FALSE
