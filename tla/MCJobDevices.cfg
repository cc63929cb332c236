CONSTANTS
  d = d
  m = m
  s = s
  None = None
  Units <- DMS
  Before <- D_M_S
  Requires <- S_Requires_D
  Requisite <- S_Requisite_M
  BindsTo <- M_BindsTo_D
  Conflicts <- NoPairs
  OnFailure = {}
  StatesOf <- DeviceStates
  GcUnits = {d}
  Throttled = {m}
  JobTimeout = {}
  JobRunningTimeout = {d}
  IgnoreOnIsolate = {s}
  Transactions <- DeviceTransactions
  MaxRequests = 3
SPECIFICATION Spec
PROPERTY FailurePropagated
