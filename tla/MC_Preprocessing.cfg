SPECIFICATION WatchedSpec
CONSTANTS
  Requests = {v1, v2, h1}
  HolderRequests = {h1}
  Capacity = 4
  MinDisclosures = 3
  MinTotalBytes = 4
  Encoded <- MCEncoded
  Malformed <- MCMalformed
  Digest <- MCDigest
  Size <- MCSize
  Inputs <- ManyInputs
  ThreadCounts = {1, 2, 3, 8}
  Watched = v1
INVARIANTS
  Conservation
  ProcessWideThreadCap
  AnswersAsSerial
  FailuresAttributed
PROPERTY AnsweredAlone
CHECK_DEADLOCK FALSE
