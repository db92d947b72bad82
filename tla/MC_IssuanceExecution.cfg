SPECIFICATION WatchedSpec
CONSTANTS
  Requests = {q1, q2}
  Plans <- AllPlans
  Capacity = 3
  MinJobs = 2
  ThreadCounts = {2, 3}
  Watched = q1
INVARIANTS SameAsSerial NeverInvalid ThreadsWithinBudget
PROPERTY IssuedAlone
CHECK_DEADLOCK FALSE
