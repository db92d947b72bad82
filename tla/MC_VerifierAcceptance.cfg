SPECIFICATION Spec
CHECK_DEADLOCK FALSE
CONSTANTS
  Keys <- MCKeys
  Index <- MCIndex
  Reserved = {"_sd", "..."}
  Always = {"iss"}
  Cnf = "cnf"
  MaxDepth = 4
  Payloads <- MCPayloads
  DisclosureLists <- MCDisclosureLists
INVARIANT
  AcceptsExactlyWellFormed
