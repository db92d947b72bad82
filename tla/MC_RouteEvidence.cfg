SPECIFICATION Spec
CONSTANTS
  DisclosureCounts <- MCDisclosureCounts
  UsizeMax = 1000
  WorkerCap = 4
  Hosts = {1, 3, 5}
  MaxChanges = 1
  Selectable = {1, 48, 51}
INVARIANTS EvidenceSurvives PublishedTrue OneHost NoSelfContention MeasuredAsRecorded
CHECK_DEADLOCK FALSE
