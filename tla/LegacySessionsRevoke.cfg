CONSTANTS
  l1 = l1  l2 = l2  u1 = u1  t1 = t1  t2 = t2  w1 = w1  w2 = w2
  Login <- OneLogin
  User <- OneUser
  Tool <- OneTool
  ToolOf <- ToT1
  Worker <- TwoWorkers
  Sent <- Refreshes
  MaxTokens = 2
  MaxTime = 0
  RequestTTL = 1
  CodeTTL = 1
  SessionTTL = 1
SYMMETRY Alike
SPECIFICATION Spec
INVARIANTS RevokedGrantHasNoSession
