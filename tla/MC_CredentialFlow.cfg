SPECIFICATION Spec
CHECK_DEADLOCK FALSE
CONSTANTS
  Keys <- MCKeys
  Index <- MCIndex
  Reserved = {"_sd"}
  Always = {"iss"}
  Cnf = "cnf"
  MaxDepth = 4
  MaxInputBytes = 27
  MaxDisclosures = 4
  MaxDisclosureBytes = 5
  KbBytes = 3
  Envelope <- MCEnvelope
  Issuer = "iss"
  ClaimSets <- MCClaimSets
  Strategies <- MCStrategies
  Options <- MCOptions
  Requests <- MCRequests
INVARIANTS
  
  PresentationClosed
  FaithfulDelivery
  NothingUnselected
  DamageDetected
  SameLimitsInEveryForm
