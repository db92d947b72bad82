SPECIFICATION Spec
CONSTANTS
  Callers = {c1, c2}
  SerialCallers = {s1}
  Encoded <- MCEncoded
  Malformed <- MCMalformed
  Digest <- MCDigest
  Size <- MCSize
  MaxCredentials = 3
  MaxDisclosures = 2
  MaxDisclosureBytes = 2
  MaxInputBytes = 2
  Batches <- MCBatches
  LastPlanId = 3
  MaxOutcomes = 3
INVARIANTS
  PlanIdsDistinct
  PublishesOnlyComplete
  AnswersAsAlone
  CompleteNeverRefused
SYMMETRY CallerSymmetry
CHECK_DEADLOCK FALSE
