CONSTANTS
  l1 = l1  l2 = l2  u1 = u1  t1 = t1  t2 = t2  w1 = w1  w2 = w2
  Login <- OneLogin
  User <- OneUser
  Tool <- TwoTools
  ToolOf <- ToT1
  Worker <- TwoWorkers
  Sent <- AllRequests
  MaxTokens = 3
  MaxTime = 2
  RequestTTL = 1
  CodeTTL = 1
  SessionTTL = 2
SYMMETRY Alike
SPECIFICATION Spec
INVARIANTS TypeOK OneUsableToken DisabledUserHasNoSession
PROPERTIES RefreshIsEntitled SessionMovesForward
