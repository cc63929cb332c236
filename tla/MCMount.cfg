CONSTANTS
  MaxMounts = 2
  MaxTokens = 2
  MaxOthers = 3
  RetryMax = 1
  Jobs = {"start", "stop", "reload"}
SPECIFICATION Spec
INVARIANTS Follows NoneForgotten
PROPERTIES DoneSeen Answered
CHECK_DEADLOCK FALSE
