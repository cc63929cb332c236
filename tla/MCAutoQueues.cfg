CONSTANTS
  a = a
  b = b
  c = c
  Units <- MCUnits
  Upholds <- MCUpholds
  BindsTo <- MCBindsTo
  Wants <- MCWants
  StopWhenUnneeded = {b}
  Burst = 1
SPECIFICATION Spec
INVARIANT Attended
PROPERTY UpheldIsStarted
