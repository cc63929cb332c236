CONSTANTS
  disk = disk
  part = part
  Devices = {disk, part}
  Conflicts <- MCConflicts
  Disks = {disk}
  Workers = {w1, w2, w3, w4}
  ChildrenMax = 2
  MaxEvents <- MCMaxEvents
  MayExit = TRUE
SPECIFICATION Spec
INVARIANTS Ordered NotLost
PROPERTIES Handled Exits
CHECK_DEADLOCK FALSE
