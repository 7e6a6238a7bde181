CONSTANTS
  p1 = p1  a1 = a1
  Person <- OnePerson
  Admin <- OneAdmin
  Operations <- ImportsOnly
  MaxGrants = 2
  MaxRequests = 1
SPECIFICATION GrantsSpec
PROPERTIES ImportKeepsFirstGrant
CHECK_DEADLOCK FALSE
