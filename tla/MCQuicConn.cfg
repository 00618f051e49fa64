CONSTANTS
  maxUselessRecords = 1
  Chunks = {2, 3}
  MaxData = 3
SPECIFICATION Spec
INVARIANT EventsDelivered
PROPERTIES
  EventsOwned
  EveryCallReturns
CHECK_DEADLOCK FALSE
