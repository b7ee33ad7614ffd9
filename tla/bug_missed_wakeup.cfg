CONSTANTS
  SlotMin = 0
  SlotMax = 2
  MaxWaiters = 3
  MaxFaults = 1
SPECIFICATION Spec
CHECK_DEADLOCK FALSE
INVARIANTS NoMissedWakeup
