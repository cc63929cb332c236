SPECIFICATION BarrierSpec
CONSTANTS
  MaxPlaced = 2
  BARRIER_ABORTION = 100
INVARIANTS ExitAfterBarriers CountExact
PROPERTIES ImplementsBarrierSync WaitersWake
CHECK_DEADLOCK FALSE
