CONSTANTS
  Configs <- MCConfigs
  MaxOthers = 3
SPECIFICATION Spec
INVARIANT NoneLeft
PROPERTIES StoppedStaysDown JobsEnd
CHECK_DEADLOCK FALSE
