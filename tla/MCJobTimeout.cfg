CONSTANTS
  x = x
  y = y
  None = None
  Units <- XY
  Before <- Cycle
  Requires <- NoPairs
  Requisite <- NoPairs
  BindsTo <- NoPairs
  Conflicts <- X_Conflicts_Y
  OnFailure = {}
  StatesOf <- States
  GcUnits = {}
  Throttled = {x}
  JobTimeout = {x, y}
  JobRunningTimeout = {}
  IgnoreOnIsolate = {}
  Transactions <- CycleTransactions
  MaxRequests = 2
SPECIFICATION TimerSpec
PROPERTY JobsTimeOut
