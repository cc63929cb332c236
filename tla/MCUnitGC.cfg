SPECIFICATION Spec
CONSTANTS
  Units = {a, b, c}
  NoUnit = NoUnit
  Handlers = {c}
  RefHolders = {b}
INVARIANTS CollectsUnneeded NoLeak
PROPERTY GarbageIsCollected
