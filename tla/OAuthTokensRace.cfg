CONSTANTS
  a1 = a1  c1 = c1  c2 = c2  s1 = s1  s2 = s2  w1 = w1  w2 = w2
  Auth <- OneAuth
  Client <- OneClient
  ClientOf <- OwnedByC1
  Scope <- TwoScopes
  Worker <- TwoWorkers
  Changes <- NoChanges
  Sent <- ChangingRequests
  MaxGen = 2
  MaxTime = 1
  CodeTTL = 1
  IdleTTL = 2
  AccessTTL = 1
  Skew = 1
SYMMETRY Alike
SPECIFICATION Spec
INVARIANTS FamilyLineage NoCheckFails TablesAgree ReplayIsFatal
PROPERTIES RevocationIsFinal ImplementsCredential
