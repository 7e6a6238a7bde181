CONSTANTS
  p1 = p1  a1 = a1  a2 = a2  o1 = o1  o2 = o2  c1 = c1  c2 = c2
  s1 = s1  n1 = n1  b1 = b1  t1 = t1  t2 = t2  k1 = k1  u1 = u1
  Person <- OnePerson
  Admin <- TwoAdmins
  Operations <- MostOperations
  MaxGrants = 2
  MaxRequests = 2
  Operator <- TwoOperators
  Caller <- TwoCallers
  MaxCredentials = 4
  Scope <- OneScope
  Native <- OneNative
  Bridge <- OneBridge
  Tool <- TwoTools
  Key <- OneKey
  Uri <- OneUri
  Agendas <- TwoAgendas
  Human <- OnePerson
  Offer <- OneScope
  Approved <- OnePerson
  MaxRows = 2
  MaxToday = 1
  MaxIds = 2
  MaxFiles = 2
SPECIFICATION AdministrationSpec
INVARIANTS AdministrationTypeOK DecidedOnce OneActiveCredential AnswersAreCurrent ExportsValidate
PROPERTIES DeniedIsQueued RevivedByPatchOnly CommitSeesPreview LinksStand BulkCovers
SYMMETRY AdminsAlike
CHECK_DEADLOCK FALSE
