CONSTANTS
  a = a
  b = b
  None = None
  Units <- AB
  Before <- A_Before_B
  Requires <- B_Requires_A
  Requisite <- NoPairs
  BindsTo <- NoPairs
  Conflicts <- NoPairs
  OnFailure = {b}
  StatesOf <- ServiceStates
  GcUnits = {}
  Throttled = {}
  JobTimeout = {a}
  JobRunningTimeout = {b}
  IgnoreOnIsolate = {}
  Transactions <- ServiceTransactions
  MaxRequests = 3
SPECIFICATION Spec
INVARIANT TypeOK
INVARIANT RunningCounted
INVARIANT NoLostWakeup
INVARIANT NoStall
INVARIANT ReloadHonoured
PROPERTY FailurePropagated
