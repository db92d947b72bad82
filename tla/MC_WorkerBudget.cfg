SPECIFICATION FairSpec
CONSTANTS
  Callers = {c1, c2, c3}
  Capacity = 4
  WorkerCounts = {0, 1, 2, 3, 4, 5}
INVARIANTS
  Conservation
PROPERTIES
  ImplementsLeasePool
  CallsReturn
CHECK_DEADLOCK FALSE
