CONSTANTS
  a1 = a1  c1 = c1  c2 = c2  s1 = s1  s2 = s2  w1 = w1  w2 = w2
  Auth <- OneAuth
  Client <- TwoClients
  ClientOf <- OwnedByC1
  Scope <- OneScope
  Worker <- OneWorker
  Changes <- AllChanges
  Sent <- AllRequests
  MaxGen = 1
  MaxTime = 4
  CodeTTL = 1
  IdleTTL = 2
  AccessTTL = 1
  Skew = 1
SPECIFICATION Spec
INVARIANTS TypeOK RevokedIsInactive
PROPERTIES OnlyOwnerRevokes
