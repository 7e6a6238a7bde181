CONSTANTS
  t1 = t1  g1 = g1  g2 = g2  w1 = w1  w2 = w2
  Txn <- OneTxn
  Grant <- TwoGrants
  Worker <- TwoWorkers
  MaxTime = 2
  TTL = 1
SPECIFICATION Spec
INVARIANTS TypeOK ToldTheTruth TimesInOrder
PROPERTIES ImplementsTicket NativeCodeIsEntitled
SYMMETRY Alike
