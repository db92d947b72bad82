SPECIFICATION Spec
CONSTANTS
  c1 = c1
  c2 = c2
  k1 = k1
  k2 = k2
  es = es
  ed = ed
  d1 = d1
  d2 = d2
  h1 = h1
  h2 = h2
  r1 = r1
  r2 = r2
  n1 = n1
  n2 = n2
  MaxPresentations = 2
  Payloads <- MCPayloads
  Keys = {k1, k2}
  CnfJwk <- MCCnfJwk
  Algorithms = {es,ed}
  DeclaredAlg <- MCDeclaredAlg
  Policy <- MCPolicy
  Selections <- MCTwo
  Acceptable <- MCTwo
  Audiences = {"shop"}
  Nonces = {n1,n2}
  Holders = {h1,h2}
  Requests = {r1, r2}
CONSTRAINTS FewPresentations OneNonceAsked
SYMMETRY Symmetric
CHECK_DEADLOCK FALSE
INVARIANTS SnapshotKept HonestAccepted
PROPERTY KeepsPromise
