CONSTANTS
  SlotMin = 1
  SlotMax = 2
  MaxWaiters = 4
  MaxFaults = 2
SPECIFICATION Spec
CHECK_DEADLOCK FALSE
INVARIANTS SlotsConsistent QueueIsOwed
PROPERTIES EveryoneAnswered
