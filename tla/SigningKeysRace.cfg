CONSTANTS
  k1 = k1  k2 = k2  o1 = o1  o2 = o2  w1 = w1  w2 = w2
  Nobody = Nobody
  Key <- TwoKeys
  Admin <- TwoAdmins
  Signer <- OneSigner
  MaxTime = 1
  Lead = 1
  Grace = 3
  AccessTTL = 1
  Skew = 1
  CacheAge = 1
SPECIFICATION FairSpec
INVARIANTS TypeOK OneKeyInUse
PROPERTIES OperationsEnd
